---- MODULE Spec2Model ----
(***************************************************************************)
(* Model of the dashboard pages of marketing-sales-dashboard:              *)
(*   pages/1_GTM_Health.py, pages/2_Marketing_Performance.py,              *)
(*   pages/3_Sales_Performance.py, pages/4_Customer_Success.py.            *)
(*                                                                         *)
(* The CSV files are state (sequences of rows); each page script is a      *)
(* small state machine: the loader runs, then the filter / KPI block.      *)
(*                                                                         *)
(* Numbers.  pandas columns are IEEE doubles.  A cell is modelled as an    *)
(* extended rational [n, d]:  d > 0 is the finite value n/d (in lowest     *)
(* terms),  d = 0 with n = 1 / -1 is +inf / -inf,  d = 0 with n = 0 is     *)
(* NaN.  Rounding of finite values is not modelled.                        *)
(***************************************************************************)
EXTENDS Integers, Sequences, FiniteSets, TLC

VARIABLES
    marketing_csv,   \* rows of "data/sprinto_database - marketing.csv"
    service_csv,     \* rows of "data/sprinto_database - service.csv"
    sales_csv,       \* rows of "data/sprinto_database - sales.csv"
    page,            \* the page script this run executes
    pc,              \* position of the script
    df,              \* the table the page's loader returned
    selection,       \* the sidebar filter's value
    filtered_df,     \* the rows left by the filter
    kpi,             \* scalars / tiers computed after the filter
    cache,           \* st.cache_data: the memoized return value of the page's loader
    missing          \* the data files that do not exist

vars == <<marketing_csv, service_csv, sales_csv, page, pc, df, selection, filtered_df, kpi, cache,
          missing>>

-----------------------------------------------------------------------------
(* Bounds of the model *)

\* most rows written to the CSV files of one page
MaxRows == 3

\* calendar months the rows are dated in: 1 .. MaxMonth
MaxMonth == 3

Months == 1 .. MaxMonth

\* values of a count or amount column: 0 .. MaxVal
MaxVal == 1

Vals == 0 .. MaxVal

\* most rows written to the marketing extract of the Marketing Performance page
MaxMarketingRows == 2

\* most rows written to the service extract of the Customer Success page
MaxServiceRows == 2

\* most rows written to the extracts of the Sales Performance page
MaxSalesRows == 3

\* sales reps 1 .. MaxReps
MaxReps == 3

-----------------------------------------------------------------------------
(* Extended-rational arithmetic: what pandas / numpy do with doubles *)

Sign(i) == IF i > 0 THEN 1 ELSE IF i < 0 THEN -1 ELSE 0

Abs(i) == IF i < 0 THEN -i ELSE i

RECURSIVE GCD(_, _)
GCD(a, b) == IF b = 0 THEN a ELSE GCD(b, a % b)

NaN == [n |-> 0, d |-> 0]

PosInf == [n |-> 1, d |-> 0]

Zero == [n |-> 0, d |-> 1]

\* an integer cell
Num(i) == [n |-> i, d |-> 1]

\* the finite value p/q (q # 0) in lowest terms
Frac(p, q) ==
    LET g == GCD(Abs(p), Abs(q))
    IN  [n |-> Sign(q) * (p \div g), d |-> Abs(q) \div g]

IsNaN(x) == x.d = 0 /\ x.n = 0

IsInf(x) == x.d = 0 /\ x.n # 0

IsFinite(x) == x.d > 0

\* x + y on doubles: NaN propagates, inf + (-inf) = NaN
FAdd(x, y) ==
    IF IsNaN(x) \/ IsNaN(y) THEN NaN
    ELSE IF IsInf(x) /\ IsInf(y) THEN (IF x.n = y.n THEN x ELSE NaN)
    ELSE IF IsInf(x) THEN x
    ELSE IF IsInf(y) THEN y
    ELSE Frac(x.n * y.d + y.n * x.d, x.d * y.d)

FNeg(x) == [n |-> -x.n, d |-> x.d]

FSub(x, y) == FAdd(x, FNeg(y))

\* x * y on doubles: inf * 0 = NaN
FMul(x, y) ==
    IF IsNaN(x) \/ IsNaN(y) THEN NaN
    ELSE IF IsInf(x) \/ IsInf(y)
         THEN [n |-> Sign(x.n) * Sign(y.n), d |-> 0]
    ELSE Frac(x.n * y.n, x.d * y.d)

\* x / y on doubles, as Series.__truediv__ computes it: a finite non-zero
\* value over 0 is +/-inf, 0/0 is NaN, nothing is raised
FDiv(x, y) ==
    IF IsNaN(x) \/ IsNaN(y) THEN NaN
    ELSE IF IsInf(y) THEN (IF IsInf(x) THEN NaN ELSE Zero)
    ELSE IF y.n = 0 THEN [n |-> Sign(x.n), d |-> 0]
    ELSE IF IsInf(x) THEN [n |-> Sign(x.n) * Sign(y.n), d |-> 0]
    ELSE Frac(x.n * y.d, x.d * y.n)

\* x < y on doubles: every comparison with NaN is False
FLt(x, y) ==
    /\ ~IsNaN(x)
    /\ ~IsNaN(y)
    /\ IF IsInf(x) /\ IsInf(y) THEN x.n < y.n
       ELSE IF IsInf(x) THEN x.n < 0
       ELSE IF IsInf(y) THEN y.n > 0
       ELSE x.n * y.d < y.n * x.d

FEq(x, y) == ~IsNaN(x) /\ ~IsNaN(y) /\ x = y

FLe(x, y) == FLt(x, y) \/ FEq(x, y)

FGt(x, y) == FLt(y, x)

FGe(x, y) == FLe(y, x)

\* Series.fillna(0): NaN becomes 0, +/-inf is left as it is
FillNa0(x) == IF IsNaN(x) THEN Zero ELSE x

\* Series.sum() / Series.mean() skip NaN cells
RECURSIVE SumSkipNa(_)
SumSkipNa(s) ==
    IF s = <<>> THEN Zero
    ELSE IF IsNaN(Head(s)) THEN SumSkipNa(Tail(s))
    ELSE FAdd(Head(s), SumSkipNa(Tail(s)))

RECURSIVE CountNotNa(_)
CountNotNa(s) ==
    IF s = <<>> THEN 0
    ELSE (IF IsNaN(Head(s)) THEN 0 ELSE 1) + CountNotNa(Tail(s))

\* Series.mean(): NaN for a series with no non-NaN cell
Mean(s) == IF CountNotNa(s) = 0 THEN NaN ELSE FDiv(SumSkipNa(s), Num(CountNotNa(s)))

\* integer column sum over the rows of a sequence
RECURSIVE SumField(_, _)
SumField(rows, f) ==
    IF rows = <<>> THEN 0 ELSE rows[1][f] + SumField(Tail(rows), f)

\* column of a table as a sequence
Column(rows, f) == [i \in 1 .. Len(rows) |-> rows[i][f]]

-----------------------------------------------------------------------------
(* Dates.  A date is [m, d]: absolute calendar month m, day d of the month *)

Date(m, d) == [m |-> m, d |-> d]

\* date.dt.to_period('M').dt.to_timestamp(): the first day of the date's month
\* (the date as it is: what grouping by date instead of month_year would give)
DateAsIs(date) == date

\* .dt.to_period('M').dt.to_timestamp(): the first day of the date's month
MonthStart(date) == [m |-> date.m, d |-> 1]

DateLe(a, b) == a.m < b.m \/ (a.m = b.m /\ a.d <= b.d)

Range(s) == {s[i] : i \in 1 .. Len(s)}

\* Series.min() / Series.max() of a non-empty column of month starts
MinMonth(rows) == CHOOSE a \in {MonthStart(r.date) : r \in Range(rows)} :
                      \A b \in {MonthStart(r.date) : r \in Range(rows)} : DateLe(a, b)

MaxMonthOf(rows) == CHOOSE a \in {MonthStart(r.date) : r \in Range(rows)} :
                        \A b \in {MonthStart(r.date) : r \in Range(rows)} : DateLe(b, a)

\* the rows of one month_year group
RowsOfMonth(rows, my) ==
    LET InMonth(r) == MonthStart(r.date) = my
    IN  SelectSeq(rows, InMonth)

\* groupby('month_year').agg(sum) merged 'left' onto the month axis: the
\* group's sum, NaN for a month that has no group
MonthlySum(rows, my, f) ==
    IF RowsOfMonth(rows, my) = <<>> THEN NaN ELSE Num(SumField(RowsOfMonth(rows, my), f))

\* DataFrame.ffill() of one column: a NaN cell takes the last cell before it
\* that is not NaN (the first cells stay NaN when there is none)
Ffill(col) ==
    LET f[i \in 1 .. Len(col)] ==
            IF IsNaN(col[i]) /\ i > 1 THEN f[i - 1] ELSE col[i]
    IN  f

\* (a column that is never accumulated: what leaving out .cumsum() would give)
CumSumForgotten(col) == col

\* Series.cumsum(): inclusive running sum, NaN cells skipped and left NaN
CumSum(col) ==
    [i \in 1 .. Len(col) |->
        IF IsNaN(col[i]) THEN NaN ELSE SumSkipNa(SubSeq(col, 1, i))]

-----------------------------------------------------------------------------
(* pages/1_GTM_Health.py *)

\* GROSS_MARGIN = 0.80
GROSS_MARGIN == Frac(4, 5)

\* SALES_COST_MULTIPLIER = 3
SALES_COST_MULTIPLIER == 3

\* (the revenue churn the service extract shows: what dividing by the
\* period's actual churn instead of the benchmark would give)
ActualMonthlyChurn ==
    IF SumField(service_csv, "churn_mrr") > 0 /\ SumField(service_csv, "book_of_business_bom") > 0
    THEN Frac(SumField(service_csv, "churn_mrr"), SumField(service_csv, "book_of_business_bom"))
    ELSE Frac(1, 250)

\* benchmark_monthly_churn = 0.004
benchmark_monthly_churn == Frac(1, 250)

\* (the month axis from the first to the last row of the extract: what
\* .iloc[0] and .iloc[-1] instead of .min() and .max() would give)
AllMonthsFirstToLastRow(service) ==
    [i \in 1 .. (service[Len(service)].date.m - service[1].date.m + 1) |->
        Date(service[1].date.m + i - 1, 1)]

\* pd.date_range(start=start_date, end=end_date, freq='MS')
AllMonths(service) ==
    [i \in 1 .. (MaxMonthOf(service).m - MinMonth(service).m + 1) |->
        Date(MinMonth(service).m + i - 1, 1)]

\* lines 62-67: the two left merges, fillna(0) of the marketing columns and
\* ffill() of the three service columns
MergedGtm(marketing, service) ==
    LET months == AllMonths(service)
        newc   == Ffill([i \in DOMAIN months |-> MonthlySum(service, months[i], "growth_accounts")])
        mrr    == Ffill([i \in DOMAIN months |-> MonthlySum(service, months[i], "book_of_business_bom")])
        accts  == Ffill([i \in DOMAIN months |-> MonthlySum(service, months[i], "customer_accounts_bom")])
    IN  [i \in DOMAIN months |->
            [month_year           |-> months[i],
             total_new_customers  |-> newc[i],
             bom_mrr              |-> mrr[i],
             bom_accounts         |-> accts[i],
             total_marketing_cost |-> FillNa0(MonthlySum(marketing, months[i], "cost")),
             total_mqls           |-> FillNa0(MonthlySum(marketing, months[i], "mql"))]]

\* gtm_df['cumulative_sm_spend'] = gtm_df['total_sm_spend'].cumsum()
CumulativeSpend(g) ==
    CumSum([i \in DOMAIN g |-> FMul(g[i].total_marketing_cost, Num(SALES_COST_MULTIPLIER))])

\* gtm_df['cumulative_new_customers'] = gtm_df['total_new_customers'].cumsum()
CumulativeCustomers(g) == CumSum(Column(g, "total_new_customers"))

\* gtm_df['cumulative_cac'] = cumulative_sm_spend / cumulative_new_customers
CumulativeCac(spend, customers) == FDiv(spend, customers)

\* the value load_and_calculate_metrics returns: gtm_df.fillna(0)
GtmTable(marketing, service) ==
    LET g     == MergedGtm(marketing, service)
        spend == CumulativeSpend(g)
        custs == CumulativeCustomers(g)
    IN  [i \in DOMAIN g |->
            LET arpa == FDiv(g[i].bom_mrr, g[i].bom_accounts)
                ltv  == FDiv(FMul(arpa, GROSS_MARGIN), benchmark_monthly_churn)
                cac  == CumulativeCac(spend[i], custs[i])
            IN  [month_year               |-> g[i].month_year,
                 total_new_customers      |-> FillNa0(g[i].total_new_customers),
                 bom_mrr                  |-> FillNa0(g[i].bom_mrr),
                 bom_accounts             |-> FillNa0(g[i].bom_accounts),
                 total_marketing_cost     |-> FillNa0(g[i].total_marketing_cost),
                 total_mqls               |-> FillNa0(g[i].total_mqls),
                 arpa                     |-> FillNa0(arpa),
                 ltv                      |-> FillNa0(ltv),
                 total_sm_spend           |-> FillNa0(FMul(g[i].total_marketing_cost, Num(SALES_COST_MULTIPLIER))),
                 cumulative_sm_spend      |-> FillNa0(spend[i]),
                 cumulative_new_customers |-> FillNa0(custs[i]),
                 cumulative_cac           |-> FillNa0(cac),
                 ltv_cac_ratio            |-> FillNa0(FDiv(ltv, cac)),
                 payback_period           |-> FillNa0(FDiv(cac, FMul(arpa, GROSS_MARGIN))),
                 lead_to_customer_rate    |-> FillNa0(FDiv(g[i].total_new_customers, g[i].total_mqls))]]

\* (accumulation restarted at the first selected month: what dividing the
\* period's own spend by the period's own new customers would give)
GtmKpisRestarted(f) ==
    LET avg_ltv     == Mean(Column(f, "ltv"))
        overall_cac == CumulativeCac(SumSkipNa(Column(f, "total_sm_spend")),
                                     SumSkipNa(Column(f, "total_new_customers")))
    IN  [avg_ltv            |-> avg_ltv,
         overall_cac        |-> overall_cac,
         ltv_cac_ratio      |-> IF FGt(overall_cac, Zero) THEN FDiv(avg_ltv, overall_cac) ELSE Zero,
         avg_payback_period |-> Mean(Column(f, "payback_period"))]

\* lines 116-120: the aggregate KPIs of the selected period
GtmKpis(f) ==
    LET avg_ltv     == Mean(Column(f, "ltv"))
        overall_cac == IF f # <<>> THEN f[Len(f)].cumulative_cac ELSE Zero
    IN  [avg_ltv            |-> avg_ltv,
         overall_cac        |-> overall_cac,
         ltv_cac_ratio      |-> IF FGt(overall_cac, Zero) THEN FDiv(avg_ltv, overall_cac) ELSE Zero,
         avg_payback_period |-> Mean(Column(f, "payback_period"))]


-----------------------------------------------------------------------------
(* The GTM Health page as a state machine *)

NoKpi == [none |-> TRUE]

NoSelection == [none |-> TRUE]

\* st.cache_data holds no entry for the loader yet
NoCache == [none |-> TRUE]

\* the entry st.cache_data keeps for a loader: its arguments are the key (the
\* path constant, or nothing), the files it reads are not part of the key
Cached(v) == [value |-> v]

\* a call of an @st.cache_data function: the stored value on a hit, the
\* computed one on a miss
Memoized(computed) == IF cache = NoCache THEN computed ELSE cache.value

\* the entry st.cache_data keeps of a call that returned None
CachedNone == [failed |-> TRUE]

\* pd.read_csv raises FileNotFoundError for one of the files the loader
\* reads: st.error(...) and `return None`, which st.cache_data memoizes too
FileNotFound(files) ==
    \/ cache = CachedNone
    \/ cache = NoCache /\ files \cap missing # {}

\* rows of the marketing extract as the GTM page reads them (date, cost, mql)
GtmMarketingRows ==
    {[date |-> Date(m, 1), campaign_name |-> "c1", cost |-> c, mql |-> q,
      sal |-> 0, sql |-> 0, closed |-> 0, mrr |-> 0] :
        m \in Months, c \in Vals, q \in Vals}

\* rows of the service extract as the GTM page reads them
GtmServiceRows ==
    {[date |-> Date(m, 1), book_of_business_bom |-> b, book_of_business_eom |-> 0,
      customer_accounts_bom |-> a, churn_mrr |-> 0, churn_accounts |-> 0,
      growth_mrr |-> 0, growth_accounts |-> g] :
        m \in Months, b \in Vals, a \in Vals, g \in Vals}

\* the same extracts with only the flow columns varying (cost, growth_accounts)
\* and one account worth 1 of MRR on the books every month
GtmFlowMarketingRows == {r \in GtmMarketingRows : r.mql = 1}

GtmFlowServiceRows ==
    {r \in GtmServiceRows : r.book_of_business_bom = 1 /\ r.customer_accounts_bom = 1}

InitGtm ==
    /\ marketing_csv = <<>>
    /\ service_csv = <<>>
    /\ sales_csv = <<>>
    /\ page = "gtm"
    /\ pc = "start"
    /\ df = <<>>
    /\ selection = NoSelection
    /\ filtered_df = <<>>
    /\ kpi = NoKpi
    /\ cache = NoCache
    /\ missing = {}

\* the data extract gains a marketing row before the page runs
WriteGtmMarketingRow(rows) ==
    /\ page = "gtm"
    /\ pc = "start"
    /\ Len(marketing_csv) + Len(service_csv) < MaxRows
    /\ \E r \in rows : marketing_csv' = Append(marketing_csv, r)
    /\ UNCHANGED <<service_csv, sales_csv, page, pc, df, selection, filtered_df, kpi, cache, missing>>

\* the data extract gains a service row before the page runs
WriteGtmServiceRow(rows) ==
    /\ page = "gtm"
    /\ pc = "start"
    /\ Len(marketing_csv) + Len(service_csv) < MaxRows
    /\ \E r \in rows : service_csv' = Append(service_csv, r)
    /\ UNCHANGED <<marketing_csv, sales_csv, page, pc, df, selection, filtered_df, kpi, cache, missing>>

\* gtm_df = load_and_calculate_metrics().  With no service row start_date is
\* NaT and pd.date_range raises ValueError, which the function does not catch.
load_and_calculate_metrics ==
    /\ page = "gtm"
    /\ pc = "start"
    /\ IF FileNotFound({"marketing", "service"})
       THEN /\ pc' = "stopped"
            /\ df' = df
            /\ cache' = CachedNone
       ELSE /\ IF cache = NoCache /\ service_csv = <<>>
               THEN /\ pc' = "error"
                    /\ df' = df
                    /\ cache' = cache
               ELSE /\ pc' = "loaded"
                    /\ df' = Memoized(GtmTable(marketing_csv, service_csv))
                    /\ cache' = Cached(df')
    /\ UNCHANGED <<marketing_csv, service_csv, sales_csv, page, selection, filtered_df, kpi, missing>>

\* days of the month the user picks in the date input
Days == {1, 15}

\* dates the date input offers: min_value = the first month_year of the table,
\* max_value = the last one
SelectableDates(table, days) ==
    {date \in {Date(m, d) : m \in {r.month_year.m : r \in Range(table)}, d \in days} :
        /\ DateLe(table[1].month_year, date)
        /\ DateLe(date, table[Len(table)].month_year)}

\* lines 104-109: the date range picked in the sidebar and the filter.  While
\* only the first date of a range is picked st.date_input returns a 1-tuple
\* and `start_date, end_date = date_range` raises ValueError.
GtmFilter(days) ==
    /\ page = "gtm"
    /\ pc = "loaded"
    /\ \/ \E start_date \in SelectableDates(df, days), end_date \in SelectableDates(df, days) :
             /\ DateLe(start_date, end_date)
             /\ selection' = [start_date |-> start_date, end_date |-> end_date]
             /\ LET Picked(r) == /\ DateLe(start_date, r.month_year)
                                 /\ DateLe(r.month_year, end_date)
                IN  filtered_df' = SelectSeq(df, Picked)
             /\ pc' = "filtered"
       \/ \E start_date \in SelectableDates(df, days) :
             /\ selection' = [start_date |-> start_date]
             /\ filtered_df' = filtered_df
             /\ pc' = "error"
    /\ UNCHANGED <<marketing_csv, service_csv, sales_csv, page, df, kpi, cache, missing>>

\* (the page without lines 111-113: the scorecard of an empty selection
\* falls back to zeros)
GtmNoDataSilentZeros ==
    /\ page = "gtm"
    /\ pc = "filtered"
    /\ filtered_df = <<>>
    /\ kpi' = [avg_ltv |-> Zero, overall_cac |-> Zero, ltv_cac_ratio |-> Zero,
               avg_payback_period |-> Zero]
    /\ pc' = "done"
    /\ UNCHANGED <<marketing_csv, service_csv, sales_csv, page, df, selection, filtered_df, cache, missing>>

\* lines 111-113: st.warning("No data available ...") and st.stop()
GtmNoData ==
    /\ page = "gtm"
    /\ pc = "filtered"
    /\ filtered_df = <<>>
    /\ pc' = "no_data"
    /\ UNCHANGED <<marketing_csv, service_csv, sales_csv, page, df, selection, filtered_df, kpi, cache, missing>>

\* lines 116-120: the KPI scorecard values
GtmScorecard ==
    /\ page = "gtm"
    /\ pc = "filtered"
    /\ filtered_df # <<>>
    /\ kpi' = GtmKpis(filtered_df)
    /\ pc' = "done"
    /\ UNCHANGED <<marketing_csv, service_csv, sales_csv, page, df, selection, filtered_df, cache, missing>>

\* the page with whole months picked in the date input
GtmPage ==
    \/ load_and_calculate_metrics
    \/ GtmFilter({1})
    \/ GtmScorecard

\* the page with any day picked in the date input
GtmPageAnyDay ==
    \/ load_and_calculate_metrics
    \/ GtmFilter(Days)
    \/ GtmNoData
    \/ GtmScorecard

NextGtm ==
    \/ WriteGtmMarketingRow(GtmMarketingRows)
    \/ WriteGtmServiceRow(GtmServiceRows)
    \/ GtmPageAnyDay

SpecGtm == InitGtm /\ [][NextGtm]_vars

NextGtmFlow ==
    \/ WriteGtmMarketingRow(GtmFlowMarketingRows)
    \/ WriteGtmServiceRow(GtmFlowServiceRows)
    \/ GtmPage

SpecGtmFlow == InitGtm /\ [][NextGtmFlow]_vars

-----------------------------------------------------------------------------
(* pages/2_Marketing_Performance.py *)

\* lines 24-28: the calculated columns of one marketing row
MarketingRatios(r) ==
    [date               |-> r.date,
     campaign_name      |-> r.campaign_name,
     cost               |-> r.cost,
     mql                |-> r.mql,
     sal                |-> r.sal,
     sql                |-> r.sql,
     closed             |-> r.closed,
     mrr                |-> r.mrr,
     mrr_per_dollar     |-> FDiv(Num(r.mrr), Num(r.cost)),
     cpa_closed         |-> FDiv(Num(r.cost), Num(r.closed)),
     mql_to_sal_rate    |-> FDiv(Num(r.sal), Num(r.mql)),
     sal_to_sql_rate    |-> FDiv(Num(r.sql), Num(r.sal)),
     sql_to_closed_rate |-> FDiv(Num(r.closed), Num(r.sql))]

\* the value load_data(file_path) returns
MarketingTable(rows) == [i \in DOMAIN rows |-> MarketingRatios(rows[i])]

\* total_x / total_y if total_y > 0 else 0, on Python ints
GuardedRatio(x, y) == IF y > 0 THEN Frac(x, y) ELSE Zero

\* lines 70-79: the aggregate metrics of the selected campaign
MarketingKpis(f) ==
    [total_mql              |-> SumField(f, "mql"),
     total_sal              |-> SumField(f, "sal"),
     total_sql              |-> SumField(f, "sql"),
     total_closed           |-> SumField(f, "closed"),
     total_cost             |-> SumField(f, "cost"),
     total_mrr              |-> SumField(f, "mrr"),
     overall_mrr_per_dollar |-> GuardedRatio(SumField(f, "mrr"), SumField(f, "cost")),
     mql_sal_rate           |-> GuardedRatio(SumField(f, "sal"), SumField(f, "mql")),
     sal_sql_rate           |-> GuardedRatio(SumField(f, "sql"), SumField(f, "sal")),
     sql_closed_rate        |-> GuardedRatio(SumField(f, "closed"), SumField(f, "sql"))]

\* rows of the marketing extract as the Marketing Performance page reads them
MarketingRows ==
    {[date |-> Date(1, 1), campaign_name |-> c, cost |-> co, mql |-> q,
      sal |-> sa, sql |-> sq, closed |-> cl, mrr |-> mr] :
        c \in {"c1", "c2"}, co \in Vals, q \in Vals, sa \in Vals,
        sq \in Vals, cl \in Vals, mr \in Vals}

InitMarketing ==
    /\ marketing_csv = <<>>
    /\ service_csv = <<>>
    /\ sales_csv = <<>>
    /\ page = "marketing"
    /\ pc = "start"
    /\ df = <<>>
    /\ selection = NoSelection
    /\ filtered_df = <<>>
    /\ kpi = NoKpi
    /\ cache = NoCache
    /\ missing = {}

\* the data extract gains a marketing row before the page runs
WriteMarketingRow(rows) ==
    /\ page = "marketing"
    /\ pc = "start"
    /\ Len(marketing_csv) < MaxMarketingRows
    /\ \E r \in rows : marketing_csv' = Append(marketing_csv, r)
    /\ UNCHANGED <<service_csv, sales_csv, page, pc, df, selection, filtered_df, kpi, cache, missing>>

\* marketing_df = load_data("data/sprinto_database - marketing.csv")
load_data_marketing ==
    /\ page = "marketing"
    /\ pc = "start"
    /\ IF FileNotFound({"marketing"})
       THEN /\ pc' = "stopped"
            /\ df' = df
            /\ cache' = CachedNone
       ELSE /\ df' = Memoized(MarketingTable(marketing_csv))
            /\ cache' = Cached(df')
            /\ pc' = "loaded"
    /\ UNCHANGED <<marketing_csv, service_csv, sales_csv, page, selection, filtered_df, kpi, missing>>

\* lines 56-63: the campaign picked in the sidebar and the filter
MarketingFilter ==
    /\ page = "marketing"
    /\ pc = "loaded"
    /\ \E c \in {"All Campaigns"} \cup {r.campaign_name : r \in Range(df)} :
          /\ selection' = c
          /\ LET Picked(r) == r.campaign_name = c
             IN  filtered_df' = IF c = "All Campaigns" THEN df ELSE SelectSeq(df, Picked)
    /\ pc' = "filtered"
    /\ UNCHANGED <<marketing_csv, service_csv, sales_csv, page, df, kpi, cache, missing>>

\* lines 65-67: st.warning("No data available ...") and st.stop()
MarketingNoData ==
    /\ page = "marketing"
    /\ pc = "filtered"
    /\ filtered_df = <<>>
    /\ pc' = "no_data"
    /\ UNCHANGED <<marketing_csv, service_csv, sales_csv, page, df, selection, filtered_df, kpi, cache, missing>>

\* lines 70-79
MarketingAggregate ==
    /\ page = "marketing"
    /\ pc = "filtered"
    /\ filtered_df # <<>>
    /\ kpi' = MarketingKpis(filtered_df)
    /\ pc' = "done"
    /\ UNCHANGED <<marketing_csv, service_csv, sales_csv, page, df, selection, filtered_df, cache, missing>>

MarketingPage ==
    \/ load_data_marketing
    \/ MarketingFilter
    \/ MarketingNoData
    \/ MarketingAggregate

NextMarketing ==
    \/ WriteMarketingRow(MarketingRows)
    \/ MarketingPage

SpecMarketing == InitMarketing /\ [][NextMarketing]_vars

-----------------------------------------------------------------------------
(* pages/4_Customer_Success.py *)

\* lines 29-41: the core metrics of one service row
ServiceMetrics(r) ==
    [date                  |-> r.date,
     book_of_business_bom  |-> r.book_of_business_bom,
     book_of_business_eom  |-> r.book_of_business_eom,
     customer_accounts_bom |-> r.customer_accounts_bom,
     churn_mrr             |-> r.churn_mrr,
     churn_accounts        |-> r.churn_accounts,
     growth_mrr            |-> r.growth_mrr,
     growth_accounts       |-> r.growth_accounts,
     grr                   |-> FDiv(Num(r.book_of_business_bom - r.churn_mrr), Num(r.book_of_business_bom)),
     revenue_churn_rate    |-> FDiv(Num(r.churn_mrr), Num(r.book_of_business_bom)),
     customer_churn_rate   |-> FDiv(Num(r.churn_accounts), Num(r.customer_accounts_bom)),
     arpa                  |-> FDiv(Num(r.book_of_business_bom), Num(r.customer_accounts_bom)),
     net_mrr_growth        |-> r.growth_mrr - r.churn_mrr]

\* the value load_data() returns
ServiceTable(rows) == [i \in DOMAIN rows |-> ServiceMetrics(rows[i])]

\* benchmarks['NRR']['value'] = 1.20
target_nrr == Frac(6, 5)

\* lines 89-98: the period averages, and the target expansion MRR from the
\* row sort_values('date', ascending=False) puts first
ServiceKpis(f, latest_month) ==
    [avg_grr              |-> Mean(Column(f, "grr")),
     avg_rev_churn        |-> Mean(Column(f, "revenue_churn_rate")),
     avg_arpa             |-> Mean(Column(f, "arpa")),
     target_expansion_mrr |->
         FAdd(FSub(FMul(target_nrr, Num(latest_month.book_of_business_bom)),
                   Num(latest_month.book_of_business_bom)),
              Num(latest_month.churn_mrr))]

\* rows of the service extract as the Customer Success page reads them
ServiceRows ==
    {[date |-> Date(m, 1), book_of_business_bom |-> b, book_of_business_eom |-> 0,
      customer_accounts_bom |-> a, churn_mrr |-> cm, churn_accounts |-> ca,
      growth_mrr |-> 0, growth_accounts |-> 0] :
        m \in Months, b \in Vals, a \in Vals, cm \in Vals, ca \in Vals}

InitService ==
    /\ marketing_csv = <<>>
    /\ service_csv = <<>>
    /\ sales_csv = <<>>
    /\ page = "service"
    /\ pc = "start"
    /\ df = <<>>
    /\ selection = NoSelection
    /\ filtered_df = <<>>
    /\ kpi = NoKpi
    /\ cache = NoCache
    /\ missing = {}

\* the data extract gains a service row before the page runs
WriteServiceRow(rows) ==
    /\ page = "service"
    /\ pc = "start"
    /\ Len(service_csv) < MaxServiceRows
    /\ \E r \in rows : service_csv' = Append(service_csv, r)
    /\ UNCHANGED <<marketing_csv, sales_csv, page, pc, df, selection, filtered_df, kpi, cache, missing>>

\* df = load_data()
load_data_service ==
    /\ page = "service"
    /\ pc = "start"
    /\ IF FileNotFound({"service"})
       THEN /\ pc' = "stopped"
            /\ df' = df
            /\ cache' = CachedNone
       ELSE /\ df' = Memoized(ServiceTable(service_csv))
            /\ cache' = Cached(df')
            /\ pc' = "loaded"
    /\ UNCHANGED <<marketing_csv, service_csv, sales_csv, page, selection, filtered_df, kpi, missing>>

\* lines 72-77: the whole date range of the table (the sidebar filter is
\* commented out); every row lies inside it
ServiceFilter ==
    /\ page = "service"
    /\ pc = "loaded"
    /\ selection' = IF df = <<>> THEN NoSelection
                    ELSE [start_date |-> CHOOSE a \in {r.date : r \in Range(df)} :
                                             \A b \in {r.date : r \in Range(df)} : DateLe(a, b),
                          end_date   |-> CHOOSE a \in {r.date : r \in Range(df)} :
                                             \A b \in {r.date : r \in Range(df)} : DateLe(b, a)]
    /\ LET InRange(r) == /\ DateLe(selection'.start_date, r.date)
                         /\ DateLe(r.date, selection'.end_date)
       IN  filtered_df' = IF df = <<>> THEN <<>> ELSE SelectSeq(df, InRange)
    /\ pc' = "filtered"
    /\ UNCHANGED <<marketing_csv, service_csv, sales_csv, page, df, kpi, cache, missing>>

\* lines 79-81: st.warning("No data available ...") and st.stop()
ServiceNoData ==
    /\ page = "service"
    /\ pc = "filtered"
    /\ filtered_df = <<>>
    /\ pc' = "no_data"
    /\ UNCHANGED <<marketing_csv, service_csv, sales_csv, page, df, selection, filtered_df, kpi, cache, missing>>

\* lines 89-98.  Rows that share the latest date are ordered by an unstable
\* sort: any of them may come first.
ServiceHealthCheck ==
    /\ page = "service"
    /\ pc = "filtered"
    /\ filtered_df # <<>>
    /\ \E latest_month \in Range(filtered_df) :
          /\ \A r \in Range(filtered_df) : DateLe(r.date, latest_month.date)
          /\ kpi' = ServiceKpis(filtered_df, latest_month)
    /\ pc' = "done"
    /\ UNCHANGED <<marketing_csv, service_csv, sales_csv, page, df, selection, filtered_df, cache, missing>>

ServicePage ==
    \/ load_data_service
    \/ ServiceFilter
    \/ ServiceNoData
    \/ ServiceHealthCheck

NextService ==
    \/ WriteServiceRow(ServiceRows)
    \/ ServicePage

SpecService == InitService /\ [][NextService]_vars

-----------------------------------------------------------------------------
(* pages/3_Sales_Performance.py *)

\* lines 35-39: avg_deal_size of one month of the service extract, as merged
\* 'left' onto a sales row: NaN for a month the service extract does not have
MonthlyAvgDealSize(service, my) ==
    FDiv(MonthlySum(service, my, "growth_mrr"), MonthlySum(service, my, "growth_accounts"))

\* (reversals floored at 0: what clamping negative sales on load would give)
SalesTableClamped(sales, service) ==
    [i \in DOMAIN sales |->
        [date             |-> sales[i].date,
         manager          |-> sales[i].manager,
         sales_rep        |-> sales[i].sales_rep,
         sales            |-> IF sales[i].sales < 0 THEN 0 ELSE sales[i].sales,
         quota            |-> sales[i].quota,
         month_year       |-> MonthStart(sales[i].date),
         avg_deal_size    |-> MonthlyAvgDealSize(service, MonthStart(sales[i].date)),
         quota_attainment |-> FDiv(Num(sales[i].sales), Num(sales[i].quota))]]

\* lines 41-45: merged_df
SalesTable(sales, service) ==
    [i \in DOMAIN sales |->
        [date             |-> sales[i].date,
         manager          |-> sales[i].manager,
         sales_rep        |-> sales[i].sales_rep,
         sales            |-> sales[i].sales,
         quota            |-> sales[i].quota,
         month_year       |-> MonthStart(sales[i].date),
         avg_deal_size    |-> MonthlyAvgDealSize(service, MonthStart(sales[i].date)),
         quota_attainment |-> FDiv(Num(sales[i].sales), Num(sales[i].quota))]]

\* the rows of one group of groupby(f)
RowsOfGroup(rows, f, key) ==
    LET InGroup(r) == r[f] = key
    IN  SelectSeq(rows, InGroup)

\* filtered_df.groupby('sales_rep')['quota_attainment'].mean()
RepAttainment(f) ==
    [rep \in {r.sales_rep : r \in Range(f)} |->
        Mean(Column(RowsOfGroup(f, "sales_rep", rep), "quota_attainment"))]

\* line 121: manager_perf_agg['total_sales'] / manager_perf_agg['total_quota']
ManagerAttainment(total_sales, total_quota) == FDiv(Num(total_sales), Num(total_quota))

\* lines 117-121: manager_perf_agg
ManagerPerfAgg(f) ==
    [mgr \in {r.manager : r \in Range(f)} |->
        [total_sales      |-> SumField(RowsOfGroup(f, "manager", mgr), "sales"),
         total_quota      |-> SumField(RowsOfGroup(f, "manager", mgr), "quota"),
         quota_attainment |-> ManagerAttainment(SumField(RowsOfGroup(f, "manager", mgr), "sales"),
                                                SumField(RowsOfGroup(f, "manager", mgr), "quota"))]]

\* line 102: monthly_perf
MonthlyPerf(f) ==
    [my \in {r.month_year : r \in Range(f)} |->
        [total_sales |-> SumField(RowsOfGroup(f, "month_year", my), "sales"),
         total_quota |-> SumField(RowsOfGroup(f, "month_year", my), "quota")]]

\* ascending sort of a sequence of non-NaN cells
RECURSIVE InsertSorted(_, _)
InsertSorted(x, s) ==
    IF s = <<>> THEN <<x>>
    ELSE IF FLe(x, Head(s)) THEN <<x>> \o s
    ELSE <<Head(s)>> \o InsertSorted(x, Tail(s))

RECURSIVE SortAsc(_)
SortAsc(s) == IF s = <<>> THEN <<>> ELSE InsertSorted(Head(s), SortAsc(Tail(s)))

\* numpy's _lerp(a, b, t): a + (b - a) * t, and b - (b - a) * (1 - t) where t >= 0.5
Lerp(a, b, t) ==
    IF FGe(t, Frac(1, 2))
    THEN FSub(b, FMul(FSub(b, a), FSub(Num(1), t)))
    ELSE FAdd(a, FMul(FSub(b, a), t))

\* Series.quantile(qn/qd), interpolation 'linear': NaN cells are dropped, the
\* rest is sorted, and the value at the virtual index q * (n - 1) is
\* interpolated between its two neighbours (np.percentile)
Quantile(cells, qn, qd) ==
    LET NotNa(x) == ~IsNaN(x)
        sorted   == SortAsc(SelectSeq(cells, NotNa))
        n        == Len(sorted)
        virtual  == qn * (n - 1)
        above    == virtual >= qd * (n - 1)
        previous == IF above THEN n ELSE (virtual \div qd) + 1
        next     == IF above THEN n ELSE previous + 1
        gamma    == IF above THEN Num(1) ELSE Frac(virtual % qd, qd)
    IN  IF n = 0 THEN NaN ELSE Lerp(sorted[previous], sorted[next], gamma)

\* the values of a function as a sequence (the order does not matter to a quantile)
RECURSIVE CellsOf(_, _)
CellsOf(f, keys) ==
    IF keys = {} THEN <<>>
    ELSE LET k == CHOOSE x \in keys : TRUE
         IN  <<f[k]>> \o CellsOf(f, keys \ {k})

\* (the 80th percentile of the raw rep-month rows: what taking the quantile
\* before the per-rep mean would give)
TopThresholdOverRows(att) == Quantile(Column(filtered_df, "quota_attainment"), 8, 10)

\* line 140: rep_attainment.quantile(0.8)
TopThreshold(att) == Quantile(CellsOf(att, DOMAIN att), 8, 10)

\* line 141: rep_attainment.quantile(0.1)
BottomThreshold(att) == Quantile(CellsOf(att, DOMAIN att), 1, 10)

\* line 142
TopPerformers(att) == {rep \in DOMAIN att : FGe(att[rep], TopThreshold(att))}

\* line 143
BottomPerformers(att) == {rep \in DOMAIN att : FLe(att[rep], BottomThreshold(att))}

\* line 144
MiddlePerformers(att) ==
    {rep \in DOMAIN att : FGt(att[rep], BottomThreshold(att)) /\ FLt(att[rep], TopThreshold(att))}

\* lines 217-223: the Sales Health Calculator's velocity with its levers at
\* their defaults (50 opportunities, a win rate of 20 %) and the 92-day cycle
SalesVelocity(company_avg_deal_size) ==
    FDiv(FMul(FMul(Num(50), company_avg_deal_size), Frac(20, 100)), Num(92))

\* lines 83-223: the scoreboard, the leaderboards, the tiers and the calculator
SalesKpis(d, f) ==
    LET att == RepAttainment(f)
    IN  [total_sales            |-> SumField(f, "sales"),
         total_quota            |-> SumField(f, "quota"),
         overall_attainment     |-> GuardedRatio(SumField(f, "sales"), SumField(f, "quota")),
         percent_reps_met_quota |->
             Frac(Cardinality({rep \in DOMAIN att : FGe(att[rep], Num(1))}),
                  Cardinality(DOMAIN att)),
         company_avg_deal_size  |-> Mean(Column(d, "avg_deal_size")),
         sales_velocity         |-> SalesVelocity(Mean(Column(d, "avg_deal_size"))),
         monthly_perf           |-> MonthlyPerf(f),
         manager_perf_agg       |-> ManagerPerfAgg(f),
         rep_attainment         |-> att,
         top_20_threshold       |-> TopThreshold(att),
         bottom_10_threshold    |-> BottomThreshold(att),
         top_performers         |-> TopPerformers(att),
         bottom_performers      |-> BottomPerformers(att),
         middle_performers      |-> MiddlePerformers(att)]

Reps == 1 .. MaxReps

\* the manager a rep reports to: reps 1 and 2 to "m1", the others to "m2"
ManagerOf(rep) == IF rep <= 2 THEN "m1" ELSE "m2"

\* rows of the sales extract
SalesRows ==
    {[date |-> Date(1, 1), manager |-> ManagerOf(rep), sales_rep |-> rep,
      sales |-> s, quota |-> q] :
        rep \in Reps, s \in Vals, q \in 0 .. (MaxVal + 1)}

\* rows of the service extract as the Sales Performance page reads them
SalesServiceRows ==
    {[date |-> Date(m, 1), book_of_business_bom |-> 0, book_of_business_eom |-> 0,
      customer_accounts_bom |-> 0, churn_mrr |-> 0, churn_accounts |-> 0,
      growth_mrr |-> gm, growth_accounts |-> ga] :
        m \in {1, 2}, gm \in Vals, ga \in Vals}

InitSales ==
    /\ marketing_csv = <<>>
    /\ service_csv = <<>>
    /\ sales_csv = <<>>
    /\ page = "sales"
    /\ pc = "start"
    /\ df = <<>>
    /\ selection = NoSelection
    /\ filtered_df = <<>>
    /\ kpi = NoKpi
    /\ cache = NoCache
    /\ missing = {}

\* the data extract gains a sales row before the page runs
WriteSalesRow(rows) ==
    /\ page = "sales"
    /\ pc = "start"
    /\ Len(sales_csv) + Len(service_csv) < MaxSalesRows
    /\ \E r \in rows : sales_csv' = Append(sales_csv, r)
    /\ UNCHANGED <<marketing_csv, service_csv, page, pc, df, selection, filtered_df, kpi, cache, missing>>

\* the data extract gains a service row before the page runs
WriteSalesServiceRow(rows) ==
    /\ page = "sales"
    /\ pc = "start"
    /\ Len(sales_csv) + Len(service_csv) < MaxSalesRows
    /\ \E r \in rows : service_csv' = Append(service_csv, r)
    /\ UNCHANGED <<marketing_csv, sales_csv, page, pc, df, selection, filtered_df, kpi, cache, missing>>

\* df = load_data()
load_data_sales ==
    /\ page = "sales"
    /\ pc = "start"
    /\ IF FileNotFound({"sales", "service"})
       THEN /\ pc' = "stopped"
            /\ df' = df
            /\ cache' = CachedNone
       ELSE /\ df' = Memoized(SalesTable(sales_csv, service_csv))
            /\ cache' = Cached(df')
            /\ pc' = "loaded"
    /\ UNCHANGED <<marketing_csv, service_csv, sales_csv, page, selection, filtered_df, kpi, missing>>

\* lines 71-76: the managers and reps picked in the sidebar and the filter
SalesFilter ==
    /\ page = "sales"
    /\ pc = "loaded"
    /\ \E selected_manager \in SUBSET {r.manager : r \in Range(df)} :
          \E selected_rep \in SUBSET {r.sales_rep : r \in {x \in Range(df) : x.manager \in selected_manager}} :
              /\ selection' = [selected_manager |-> selected_manager, selected_rep |-> selected_rep]
              /\ LET Picked(r) == r.manager \in selected_manager /\ r.sales_rep \in selected_rep
                 IN  filtered_df' = SelectSeq(df, Picked)
    /\ pc' = "filtered"
    /\ UNCHANGED <<marketing_csv, service_csv, sales_csv, page, df, kpi, cache, missing>>

\* lines 78-80: st.warning("No data available ...") and st.stop()
SalesNoData ==
    /\ page = "sales"
    /\ pc = "filtered"
    /\ filtered_df = <<>>
    /\ pc' = "no_data"
    /\ UNCHANGED <<marketing_csv, service_csv, sales_csv, page, df, selection, filtered_df, kpi, cache, missing>>

\* lines 83-223
SalesScoreboard ==
    /\ page = "sales"
    /\ pc = "filtered"
    /\ filtered_df # <<>>
    /\ kpi' = SalesKpis(df, filtered_df)
    /\ pc' = "done"
    /\ UNCHANGED <<marketing_csv, service_csv, sales_csv, page, df, selection, filtered_df, cache, missing>>

SalesPage ==
    \/ load_data_sales
    \/ SalesFilter
    \/ SalesNoData
    \/ SalesScoreboard

NextSales ==
    \/ WriteSalesRow(SalesRows)
    \/ WriteSalesServiceRow(SalesServiceRows)
    \/ SalesPage

SpecSales == InitSales /\ [][NextSales]_vars

-----------------------------------------------------------------------------
(* Properties of the GTM Health page *)

\* gtm_df holds the table load_and_calculate_metrics returned
GtmLoaded == page = "gtm" /\ pc \in {"loaded", "filtered", "done"}

\* C4: at every month cumulative_cac = cumulative_sm_spend /
\* cumulative_new_customers, and it is 0 at every month where
\* cumulative_new_customers is 0, also when cumulative_sm_spend is positive.
C4_CumulativeCacZeroPolicy ==
    GtmLoaded =>
        \A i \in DOMAIN df :
            IF df[i].cumulative_new_customers = Zero
            THEN df[i].cumulative_cac = Zero
            ELSE df[i].cumulative_cac =
                     FDiv(df[i].cumulative_sm_spend, df[i].cumulative_new_customers)

\* C5: every row of the returned table has finite arpa, ltv, ltv_cac_ratio,
\* payback_period and lead_to_customer_rate, a ratio whose denominator is 0
\* is 0, and the KPIs derived from the table are finite too.
C5_NoNaNOrInfPropagated ==
    /\ GtmLoaded =>
           \A i \in DOMAIN df :
               /\ IsFinite(df[i].arpa)
               /\ IsFinite(df[i].ltv)
               /\ IsFinite(df[i].ltv_cac_ratio)
               /\ IsFinite(df[i].payback_period)
               /\ IsFinite(df[i].lead_to_customer_rate)
               /\ df[i].bom_accounts = Zero => df[i].arpa = Zero
               /\ df[i].cumulative_cac = Zero => df[i].ltv_cac_ratio = Zero
               /\ df[i].arpa = Zero => df[i].payback_period = Zero
               /\ df[i].total_mqls = Zero => df[i].lead_to_customer_rate = Zero
    /\ (page = "gtm" /\ pc = "done") =>
           /\ IsFinite(kpi.avg_ltv)
           /\ IsFinite(kpi.overall_cac)
           /\ IsFinite(kpi.ltv_cac_ratio)
           /\ IsFinite(kpi.avg_payback_period)

\* a month of the table that has no row in either source file
Synthesized(i) ==
    /\ RowsOfMonth(service_csv, df[i].month_year) = <<>>
    /\ RowsOfMonth(marketing_csv, df[i].month_year) = <<>>

\* the nearest month before row i that has real service rows
PrecedingRealMonth(i) ==
    CHOOSE j \in 1 .. (i - 1) :
        /\ RowsOfMonth(service_csv, df[j].month_year) # <<>>
        /\ \A k \in (j + 1) .. (i - 1) : RowsOfMonth(service_csv, df[k].month_year) = <<>>

\* C9: a synthesized month has total_marketing_cost, total_mqls and
\* total_new_customers equal to 0, and bom_mrr and bom_accounts equal to those
\* of the nearest preceding month that had real service rows.
C9_SynthesizedMonthZeroAndCarried ==
    GtmLoaded =>
        \A i \in DOMAIN df :
            Synthesized(i) =>
                /\ df[i].total_marketing_cost = Zero
                /\ df[i].total_mqls = Zero
                /\ df[i].total_new_customers = Zero
                /\ df[i].bom_mrr = df[PrecedingRealMonth(i)].bom_mrr
                /\ df[i].bom_accounts = df[PrecedingRealMonth(i)].bom_accounts

\* C10: over the month sequence in ascending order, cumulative_sm_spend and
\* cumulative_new_customers are inclusive running sums of total_sm_spend and
\* total_new_customers: cumulative[1] = value[1] and
\* cumulative[i] = cumulative[i-1] + value[i].
C10_CumulativeRunningSums ==
    GtmLoaded =>
        \A i \in DOMAIN df :
            IF i = 1
            THEN /\ df[i].cumulative_sm_spend = df[i].total_sm_spend
                 /\ df[i].cumulative_new_customers = df[i].total_new_customers
            ELSE /\ df[i].month_year.m = df[i - 1].month_year.m + 1
                 /\ df[i].cumulative_sm_spend =
                        FAdd(df[i - 1].cumulative_sm_spend, df[i].total_sm_spend)
                 /\ df[i].cumulative_new_customers =
                        FAdd(df[i - 1].cumulative_new_customers, df[i].total_new_customers)

\* a loaded table where both sums have accumulated over more than one month
C10_Witness ==
    /\ GtmLoaded
    /\ \E i \in DOMAIN df :
          /\ i > 1
          /\ FGt(df[i - 1].cumulative_new_customers, Zero)
          /\ FGt(df[i].cumulative_new_customers, df[i - 1].cumulative_new_customers)
          /\ FGt(df[i - 1].cumulative_sm_spend, Zero)
          /\ FGt(df[i].total_new_customers, Zero)

-----------------------------------------------------------------------------
(* Properties of the Marketing Performance page *)

\* marketing_df holds the table load_data returned
MarketingLoaded == page = "marketing" /\ pc \in {"loaded", "filtered", "no_data", "done"}

\* a ratio cell under the zero-denominator policy: 0 over a zero denominator,
\* finite otherwise
ZeroPolicy(ratio, denominator) ==
    /\ IsFinite(ratio)
    /\ denominator = 0 => ratio = Zero

\* C1: for every marketing row processed by load_data, mrr_per_dollar,
\* cpa_closed, mql_to_sal_rate, sal_to_sql_rate and sql_to_closed_rate are
\* exactly 0 whenever their denominator is 0, and never NaN or +/-infinity.
C1_MarketingRowRatiosZeroPolicy ==
    MarketingLoaded =>
        \A i \in DOMAIN df :
            /\ ZeroPolicy(df[i].mrr_per_dollar, df[i].cost)
            /\ ZeroPolicy(df[i].cpa_closed, df[i].closed)
            /\ ZeroPolicy(df[i].mql_to_sal_rate, df[i].mql)
            /\ ZeroPolicy(df[i].sal_to_sql_rate, df[i].sal)
            /\ ZeroPolicy(df[i].sql_to_closed_rate, df[i].sql)

-----------------------------------------------------------------------------
(* Properties of the Customer Success page *)

\* df holds the table load_data returned
ServiceLoaded == page = "service" /\ pc \in {"loaded", "filtered", "no_data", "done"}

\* C3: for every service row, grr and revenue_churn_rate (denominator
\* book_of_business_bom), customer_churn_rate and arpa (denominator
\* customer_accounts_bom) are exactly 0 whenever their denominator is 0, never
\* NaN or infinity.
C3_ServiceRowRatiosZeroPolicy ==
    ServiceLoaded =>
        \A i \in DOMAIN df :
            /\ ZeroPolicy(df[i].grr, df[i].book_of_business_bom)
            /\ ZeroPolicy(df[i].revenue_churn_rate, df[i].book_of_business_bom)
            /\ ZeroPolicy(df[i].customer_churn_rate, df[i].customer_accounts_bom)
            /\ ZeroPolicy(df[i].arpa, df[i].customer_accounts_bom)

-----------------------------------------------------------------------------
(* Properties of the Sales Performance page *)

\* df holds the table load_data returned
SalesLoaded == page = "sales" /\ pc \in {"loaded", "filtered", "no_data", "done"}

\* the scoreboard, the leaderboards and the tiers have been computed
SalesDone == page = "sales" /\ pc = "done"

\* sales / quota, defined as 0 over a zero quota
AttainmentOrZero(sales, quota) == IF quota = 0 THEN Zero ELSE Frac(sales, quota)

\* C2: quota_attainment equals sales / quota for every rep-month row and for
\* every per-manager aggregate (sum of sales / sum of quota), and is 0 (not
\* NaN, not infinity) whenever the quota denominator is 0.
C2_QuotaAttainmentZeroPolicy ==
    /\ SalesLoaded =>
           \A i \in DOMAIN df :
               df[i].quota_attainment = AttainmentOrZero(df[i].sales, df[i].quota)
    /\ SalesDone =>
           \A mgr \in DOMAIN kpi.manager_perf_agg :
               /\ kpi.manager_perf_agg[mgr].total_sales =
                      SumField(RowsOfGroup(filtered_df, "manager", mgr), "sales")
               /\ kpi.manager_perf_agg[mgr].total_quota =
                      SumField(RowsOfGroup(filtered_df, "manager", mgr), "quota")
               /\ kpi.manager_perf_agg[mgr].quota_attainment =
                      AttainmentOrZero(kpi.manager_perf_agg[mgr].total_sales,
                                       kpi.manager_perf_agg[mgr].total_quota)

\* C6: no rep is double-counted: the top, middle and bottom tiers are
\* pairwise disjoint, also when the two thresholds coincide.
C6_TiersPairwiseDisjoint ==
    SalesDone =>
        /\ kpi.top_performers \cap kpi.bottom_performers = {}
        /\ kpi.top_performers \cap kpi.middle_performers = {}
        /\ kpi.middle_performers \cap kpi.bottom_performers = {}

\* C7: no rep is omitted: the union of top_performers, middle_performers and
\* bottom_performers is the full set of reps of the filtered data, reps whose
\* attainment comes from months with quota = 0 included.
C7_TiersCoverEveryRep ==
    SalesDone =>
        kpi.top_performers \cup kpi.middle_performers \cup kpi.bottom_performers
            = {r.sales_rep : r \in Range(filtered_df)}

\* C8: for any non-empty set of per-rep mean attainments the top-tier
\* threshold (0.8 quantile) is >= the bottom-tier threshold (0.1 quantile).
C8_TopThresholdAtLeastBottom ==
    SalesDone => FGe(kpi.top_20_threshold, kpi.bottom_10_threshold)

-----------------------------------------------------------------------------
(* pages/Growth Levers & Projections.py *)

\* most MQLs per month typed into the number input
MaxMqls == 2

\* most rows written to the two extracts when every column varies
MaxSimRows == 2

\* days of the calendar months; month 1 is the January of a common year
MonthLength(m) ==
    <<31, 28, 31, 30, 31, 30, 31, 31, 30, 31, 30, 31>>[((m - 1) % 12) + 1]

\* days from the first day of month 1 to a date
RECURSIVE DayNumber(_)
DayNumber(date) ==
    IF date.m = 1 THEN date.d - 1
    ELSE MonthLength(date.m - 1) + DayNumber([m |-> date.m - 1, d |-> date.d])

\* int(x) of a finite double: truncation towards zero
Trunc(x) == Sign(x.n) * (Abs(x.n) \div x.d)

\* rows of the service extract dated last: the candidates for
\* sort_values('date', ascending=False).iloc[0] (the sort is not stable)
LatestRows(service) ==
    {r \in Range(service) : \A q \in Range(service) : DayNumber(q.date) <= DayNumber(r.date)}

\* lines 37-67: the dictionary load_baselines returns; latest is the row the
\* descending sort puts first
Baselines(marketing, service, latest) ==
    LET total_mql == SumField(marketing, "mql")
        total_sal == SumField(marketing, "sal")
        total_sql == SumField(marketing, "sql")
        total_closed == SumField(marketing, "closed")
        days == IF marketing = <<>> THEN 0
                ELSE DayNumber(MaxMonthOf(marketing)) - DayNumber(MinMonth(marketing))
        growth_accounts == SumField(service, "growth_accounts")
        bom == SumField(service, "book_of_business_bom")
    IN  [mql_sal_rate |-> FDiv(Num(total_sal), Num(total_mql)),
         sal_sql_rate |-> FDiv(Num(total_sql), Num(total_sal)),
         win_rate |-> FDiv(Num(total_closed), Num(total_sql)),
         avg_mqls |-> IF days > 0 THEN Frac(total_mql * 3044, days * 100) ELSE Zero,
         avg_deal_size |-> IF growth_accounts > 0
                           THEN Frac(SumField(service, "growth_mrr"), growth_accounts)
                           ELSE Zero,
         churn_rate |-> IF bom > 0 THEN Frac(SumField(service, "churn_mrr"), bom) ELSE Zero,
         current_mrr |-> Num(latest.book_of_business_eom)]

\* lines 165-176: the value each widget starts with
DefaultLevers(b) ==
    [mqls_per_month |-> Num(Trunc(b.avg_mqls)),
     mql_sal_rate |-> FMul(b.mql_sal_rate, Num(100)),
     sal_sql_rate |-> FMul(b.sal_sql_rate, Num(100)),
     win_rate |-> FMul(b.win_rate, Num(100)),
     avg_deal_size |-> Num(Trunc(b.avg_deal_size)),
     target_quota |-> Num(50000),
     churn_rate |-> FMul(b.churn_rate, Num(100)),
     expansion_rate |-> Frac(1, 2)]

\* the lower and upper end of each widget (number inputs have no upper end)
LeverMin(w) == Zero

LeverMax(w) ==
    IF w \in {"mql_sal_rate", "sal_sql_rate", "win_rate"} THEN Num(100)
    ELSE IF w \in {"churn_rate", "expansion_rate"} THEN Num(5)
    ELSE PosInf

Widgets ==
    {"mqls_per_month", "mql_sal_rate", "sal_sql_rate", "win_rate",
     "avg_deal_size", "target_quota", "churn_rate", "expansion_rate"}

\* a widget accepts a value inside its range; Streamlit raises
\* StreamlitAPIException for a default outside of it (NaN compares False)
WidgetAccepts(w, v) == FLe(LeverMin(w), v) /\ FLe(v, LeverMax(w))

\* values the user moves a widget to
LeverValues(w) ==
    IF w = "mqls_per_month" THEN {Num(i) : i \in 0 .. MaxMqls}
    ELSE IF w \in {"mql_sal_rate", "sal_sql_rate"} THEN {Num(50), Num(100)}
    ELSE IF w = "win_rate" THEN {Num(0), Num(50), Num(100)}
    ELSE IF w = "avg_deal_size" THEN {Num(0), Num(12)}
    ELSE IF w = "target_quota" THEN {Num(0), Num(50000)}
    ELSE IF w = "churn_rate" THEN {Num(0), Num(5)}
    ELSE {Num(0), Frac(1, 2)}

\* 92 / 30.44: the sales cycle in months
SalesCycleMonths == Frac(92 * 100, 3044)

\* (customers counted in whole numbers: what an int() around line 187 would give)
NewCustomersTruncated(mqls_per_month, mql_sal_rate, sal_sql_rate, win_rate) ==
    Num(Trunc(FMul(FMul(FMul(mqls_per_month, mql_sal_rate), sal_sql_rate), win_rate)))

\* line 187
NewCustomersPerMonth(mqls_per_month, mql_sal_rate, sal_sql_rate, win_rate) ==
    FMul(FMul(FMul(mqls_per_month, mql_sal_rate), sal_sql_rate), win_rate)

\* (a book that grows by the net new MRR shown by the run before: what
\* keeping current_mrr in st.session_state across reruns would give)
CurrentMrrCompounded(b) ==
    IF kpi = NoKpi THEN b.current_mrr ELSE FAdd(b.current_mrr, kpi.net_new_mrr)

\* line 196
CurrentMrr(b) == b.current_mrr

\* lines 180-200: the calculation engine
Project(b, l) ==
    LET mqls_per_month == l.mqls_per_month
        mql_sal_rate == FDiv(l.mql_sal_rate, Num(100))
        sal_sql_rate == FDiv(l.sal_sql_rate, Num(100))
        win_rate == FDiv(l.win_rate, Num(100))
        churn_rate == FDiv(l.churn_rate, Num(100))
        expansion_rate == FDiv(l.expansion_rate, Num(100))
        avg_deal_size == l.avg_deal_size
        target_quota == l.target_quota
        new_customers_per_month ==
            NewCustomersPerMonth(mqls_per_month, mql_sal_rate, sal_sql_rate, win_rate)
        new_mrr_per_month == FMul(new_customers_per_month, FDiv(avg_deal_size, Num(12)))
        required_pipeline ==
            IF FGt(win_rate, Zero) THEN FDiv(target_quota, win_rate) ELSE Zero
        required_coverage ==
            IF FGt(target_quota, Zero) THEN FDiv(required_pipeline, target_quota) ELSE Zero
        sales_velocity ==
            IF FGt(win_rate, Zero)
            THEN FDiv(FMul(FMul(FMul(FMul(mqls_per_month, mql_sal_rate), sal_sql_rate),
                                FDiv(avg_deal_size, Num(12))), win_rate),
                      SalesCycleMonths)
            ELSE Zero
        current_mrr == CurrentMrr(b)
        expansion_mrr == FMul(current_mrr, expansion_rate)
        churned_mrr == FMul(current_mrr, churn_rate)
        net_new_mrr == FSub(FAdd(new_mrr_per_month, expansion_mrr), churned_mrr)
        nrr == IF FGt(current_mrr, Zero)
               THEN FDiv(FSub(FAdd(current_mrr, expansion_mrr), churned_mrr), current_mrr)
               ELSE Zero
    IN  [new_customers_per_month |-> new_customers_per_month,
         new_mrr_per_month |-> new_mrr_per_month,
         required_pipeline |-> required_pipeline,
         required_coverage |-> required_coverage,
         sales_velocity |-> sales_velocity,
         expansion_mrr |-> expansion_mrr,
         churned_mrr |-> churned_mrr,
         net_new_mrr |-> net_new_mrr,
         nrr |-> nrr]

\* rows of the marketing extract as the simulator reads them (date and funnel)
SimMarketingRows ==
    {[date |-> Date(m, 1), campaign_name |-> "c1", cost |-> 0, mql |-> q,
      sal |-> sa, sql |-> sa, closed |-> sa, mrr |-> 0] :
        m \in Months, q \in Vals, sa \in Vals}

\* rows of the service extract as the simulator reads them
SimServiceRows ==
    {[date |-> Date(m, 1), book_of_business_bom |-> 100, book_of_business_eom |-> 100 * e,
      customer_accounts_bom |-> 1, churn_mrr |-> c, churn_accounts |-> 0,
      growth_mrr |-> 12, growth_accounts |-> 1] :
        m \in Months, e \in -1 .. MaxVal, c \in Vals}

\* a steady business: a full funnel every month, a book of 100
SimSteadyMarketingRows ==
    {r \in SimMarketingRows : r.date.m <= 2 /\ r.mql = 1 /\ r.sal = 1}

SimSteadyServiceRows ==
    {r \in SimServiceRows :
        /\ r.date.m = 1
        /\ r.book_of_business_eom = 100
        /\ r.churn_mrr = 1}

InitSim ==
    /\ marketing_csv = <<>>
    /\ service_csv = <<>>
    /\ sales_csv = <<>>
    /\ page = "sim"
    /\ pc = "start"
    /\ df = <<>>
    /\ selection = NoSelection
    /\ filtered_df = <<>>
    /\ kpi = NoKpi
    /\ cache = NoCache
    /\ missing = {}

\* the data extract gains a marketing row between two runs of the page
WriteSimMarketingRow(rows, most) ==
    /\ page = "sim"
    /\ pc = "start"
    /\ Len(marketing_csv) + Len(service_csv) < most
    /\ \E r \in rows : marketing_csv' = Append(marketing_csv, r)
    /\ UNCHANGED <<service_csv, sales_csv, page, pc, df, selection, filtered_df, kpi, cache, missing>>

\* the data extract gains a service row between two runs of the page
WriteSimServiceRow(rows, most) ==
    /\ page = "sim"
    /\ pc = "start"
    /\ Len(marketing_csv) + Len(service_csv) < most
    /\ \E r \in rows : service_csv' = Append(service_csv, r)
    /\ UNCHANGED <<marketing_csv, sales_csv, page, pc, df, selection, filtered_df, kpi, cache, missing>>

\* baselines = load_baselines().  With no service row .iloc[0] raises
\* IndexError, which the function does not catch.
load_baselines ==
    /\ page = "sim"
    /\ pc = "start"
    /\ IF FileNotFound({"marketing", "service"})
       THEN /\ pc' = "stopped"
            /\ df' = df
            /\ cache' = CachedNone
       ELSE /\ IF cache = NoCache /\ service_csv = <<>>
               THEN /\ pc' = "error"
                    /\ df' = df
                    /\ cache' = cache
               ELSE /\ pc' = "loaded"
                    /\ \E latest \in IF cache = NoCache THEN LatestRows(service_csv) ELSE {<<>>} :
                          df' = Memoized(Baselines(marketing_csv, service_csv, latest))
                    /\ cache' = Cached(df')
    /\ UNCHANGED <<marketing_csv, service_csv, sales_csv, page, selection, filtered_df, kpi, missing>>

\* lines 165-176: the widgets are created; a widget the user has not touched
\* shows its default, a default outside the widget's range raises
SimWidgets ==
    /\ page = "sim"
    /\ pc = "loaded"
    /\ IF \A w \in Widgets : WidgetAccepts(w, DefaultLevers(df)[w])
       THEN /\ pc' = "levers"
            /\ selection' = IF selection = NoSelection THEN DefaultLevers(df) ELSE selection
       ELSE /\ pc' = "error"
            /\ selection' = selection
    /\ UNCHANGED <<marketing_csv, service_csv, sales_csv, page, df, filtered_df, kpi, cache, missing>>

\* lines 180-219: the projection is computed and displayed
CalculationEngine ==
    /\ page = "sim"
    /\ pc = "levers"
    /\ kpi' = Project(df, selection)
    /\ pc' = "done"
    /\ UNCHANGED <<marketing_csv, service_csv, sales_csv, page, df, selection, filtered_df, cache, missing>>

\* the user moves one widget (or leaves it where it is) and the script runs
\* again from the top: load_baselines() is served by st.cache_data, the
\* widgets keep their values (the defaults are the ones of the first run),
\* the calculation engine replaces the outputs on the screen
SimRerun ==
    /\ page = "sim"
    /\ pc = "done"
    /\ cache # NoCache
    /\ \E w \in Widgets :
          \E v \in LeverValues(w) : selection' = [selection EXCEPT ![w] = v]
    /\ df' = cache.value
    /\ kpi' = Project(df', selection')
    /\ pc' = "done"
    /\ UNCHANGED <<marketing_csv, service_csv, sales_csv, page, filtered_df, cache, missing>>

SimPage ==
    \/ load_baselines
    \/ SimWidgets
    \/ CalculationEngine
    \/ SimRerun

NextSim ==
    \/ WriteSimMarketingRow(SimMarketingRows, MaxSimRows)
    \/ WriteSimServiceRow(SimServiceRows, MaxSimRows)
    \/ SimPage

SpecSim == InitSim /\ [][NextSim]_vars

NextSimSteady ==
    \/ WriteSimMarketingRow(SimSteadyMarketingRows, MaxRows)
    \/ WriteSimServiceRow(SimSteadyServiceRows, MaxRows)
    \/ SimPage

SpecSimSteady == InitSim /\ [][NextSimSteady]_vars

-----------------------------------------------------------------------------
(* Claims about the simulator *)

SimDone == page = "sim" /\ pc = "done"

\* the levers as the fractions and amounts the linear model is written in
LeverFractions(l) ==
    [mqls |-> l.mqls_per_month,
     mql_to_sal |-> FDiv(l.mql_sal_rate, Num(100)),
     sal_to_sql |-> FDiv(l.sal_sql_rate, Num(100)),
     win_rate |-> FDiv(l.win_rate, Num(100)),
     avg_deal_size |-> l.avg_deal_size,
     target_quota |-> l.target_quota,
     churn_rate |-> FDiv(l.churn_rate, Num(100)),
     expansion_rate |-> FDiv(l.expansion_rate, Num(100))]

\* the reference linear model, every output but nrr
ReferenceFunnelAndPlanning(current_mrr, x, out) ==
    /\ out.new_customers_per_month =
          FMul(FMul(FMul(x.mqls, x.mql_to_sal), x.sal_to_sql), x.win_rate)
    /\ out.new_mrr_per_month =
          FMul(out.new_customers_per_month, FDiv(x.avg_deal_size, Num(12)))
    /\ out.required_pipeline =
          IF x.win_rate = Zero THEN Zero ELSE FDiv(x.target_quota, x.win_rate)
    /\ out.required_coverage =
          IF x.target_quota = Zero THEN Zero ELSE FDiv(out.required_pipeline, x.target_quota)
    /\ out.sales_velocity = FDiv(out.new_mrr_per_month, FDiv(Num(92), Frac(3044, 100)))
    /\ out.expansion_mrr = FMul(current_mrr, x.expansion_rate)
    /\ out.churned_mrr = FMul(current_mrr, x.churn_rate)
    /\ out.net_new_mrr = FSub(FAdd(out.new_mrr_per_month, out.expansion_mrr), out.churned_mrr)

\* the reference nrr: the retained and expanded book over the book, 0 for an
\* empty book
ReferenceNrr(current_mrr, out) ==
    out.nrr = IF current_mrr = Zero THEN Zero
              ELSE FDiv(FSub(FAdd(current_mrr, out.expansion_mrr), out.churned_mrr),
                        current_mrr)

\* C11: for every lever setting the outputs on the screen equal the reference
\* linear model: new customers, new MRR, required pipeline (0 if win_rate = 0),
\* required coverage (0 if target_quota = 0), sales velocity, expansion and
\* churned MRR, net new MRR, and nrr (0 if current_mrr = 0)
C11_SimulatorEqualsReferenceModel ==
    SimDone =>
        /\ ReferenceFunnelAndPlanning(df.current_mrr, LeverFractions(selection), kpi)
        /\ ReferenceNrr(df.current_mrr, kpi)

\* every output but nrr follows the reference model, and nrr does for a book
\* that is not negative
SimulatorEqualsReferenceOnPositiveBook ==
    SimDone =>
        /\ ReferenceFunnelAndPlanning(df.current_mrr, LeverFractions(selection), kpi)
        /\ FGe(df.current_mrr, Zero) => ReferenceNrr(df.current_mrr, kpi)

\* factors the MQL lever is scaled by: 0 .. MaxScale
MaxScale == 3

\* the levers with mqls_per_month multiplied by k
ScaledMqls(l, k) == [l EXCEPT !.mqls_per_month = FMul(Num(k), @)]

C13_ProjectionOfCurrentLevers ==
    SimDone => kpi = Project(df, selection)

\* a rerun has moved the levers away from where they started, and MRR moves
C13_Witness ==
    /\ SimDone
    /\ selection # DefaultLevers(df)
    /\ kpi.net_new_mrr # Zero
    /\ kpi.nrr # Zero

-----------------------------------------------------------------------------
(* The filters of the GTM, marketing and sales pages *)

\* extracts in which only the filtered-on column varies: the month of a GTM
\* row, the campaign of a marketing row, the rep of a sales row
FilterGtmMarketingRows == {r \in GtmFlowMarketingRows : r.cost = 1}

FilterGtmServiceRows == {r \in GtmFlowServiceRows : r.growth_accounts = 1}

FilterMarketingRows ==
    {r \in MarketingRows :
        r.cost = 1 /\ r.mql = 1 /\ r.sal = 1 /\ r.sql = 1 /\ r.closed = 1 /\ r.mrr = 1}

FilterSalesRows == {r \in SalesRows : r.sales = 1 /\ r.quota = 1}

FilterSalesServiceRows ==
    {r \in SalesServiceRows : r.date.m = 1 /\ r.growth_mrr = 1 /\ r.growth_accounts = 1}

InitFilters == InitGtm \/ InitMarketing \/ InitSales

NextFilters ==
    \/ WriteGtmMarketingRow(FilterGtmMarketingRows)
    \/ WriteGtmServiceRow(FilterGtmServiceRows)
    \/ GtmPageAnyDay
    \/ WriteMarketingRow(FilterMarketingRows)
    \/ MarketingPage
    \/ WriteSalesRow(FilterSalesRows)
    \/ WriteSalesServiceRow(FilterSalesServiceRows)
    \/ SalesPage

SpecFilters == InitFilters /\ [][NextFilters]_vars

\* C14: on the GTM, marketing and sales pages the step after the filter is the
\* "no data" warning (the page stops, no KPI is computed) exactly when the
\* filtered rows are empty; for a selection with rows the KPIs are computed
\* and no warning is emitted
C14_EmptySelectionIsWarned ==
    [][(page \in {"gtm", "marketing", "sales"} /\ pc = "filtered") =>
          IF filtered_df = <<>>
          THEN pc' = "no_data" /\ kpi' = NoKpi
          ELSE pc' = "done" /\ kpi' # NoKpi]_vars

\* the GTM page has warned for a date range that holds no month start
C14_Witness ==
    /\ page = "gtm"
    /\ pc = "no_data"
    /\ filtered_df = <<>>
    /\ df # <<>>
    /\ kpi = NoKpi

-----------------------------------------------------------------------------
(* LTV and the churn columns of the service extract *)

\* service rows whose churn columns vary (churned MRR or a churned account);
\* the book of month m is m, one account per row
GtmChurnServiceRows ==
    {[date |-> Date(m, 1), book_of_business_bom |-> m, book_of_business_eom |-> 0,
      customer_accounts_bom |-> 1, churn_mrr |-> c, churn_accounts |-> 1 - c,
      growth_mrr |-> 0, growth_accounts |-> 0] :
        m \in Months, c \in {0, 1}}

NextGtmChurn ==
    \/ WriteGtmServiceRow(GtmChurnServiceRows)
    \/ GtmPage

SpecGtmChurn == InitGtm /\ [][NextGtmChurn]_vars

\* the same service rows with nothing churned
WithoutChurn(rows) ==
    [i \in DOMAIN rows |-> [rows[i] EXCEPT !.churn_mrr = 0, !.churn_accounts = 0]]

\* C15: ltv does not depend on the churn columns: the table loaded from the
\* service rows has in every month the ltv of the rows with the churn columns
\* changed, and it is arpa * 0.80 / 0.004
C15_LtvIndependentOfChurn ==
    GtmLoaded =>
        LET unchurned == GtmTable(marketing_csv, WithoutChurn(service_csv))
            ltv == Column(SubSeq(unchurned, 1, Len(unchurned)), "ltv")
        IN  /\ Len(ltv) = Len(df)
            /\ \A i \in DOMAIN df :
                  /\ df[i].ltv = ltv[i]
                  /\ df[i].ltv = FDiv(FMul(df[i].arpa, Frac(80, 100)), Frac(4, 1000))

\* a loaded table of rows with churned MRR and churned accounts, with a
\* finite ltv above 0 and a month that has no row
C15_Witness ==
    /\ GtmLoaded
    /\ \E r \in Range(service_csv) : r.churn_mrr > 0
    /\ \E r \in Range(service_csv) : r.churn_accounts > 0
    /\ \E i \in DOMAIN df : IsFinite(df[i].ltv) /\ FGt(df[i].ltv, Zero)
    /\ \E i \in DOMAIN df : RowsOfMonth(service_csv, df[i].month_year) = <<>>

-----------------------------------------------------------------------------
(* Reruns of a page and st.cache_data *)

\* the marketing page is opened or refreshed again: the script starts from
\* the top, the st.cache_data entries of the process are kept
MarketingRerun ==
    /\ page = "marketing"
    /\ pc \in {"done", "no_data", "stopped"}
    /\ pc' = "start"
    /\ df' = <<>>
    /\ filtered_df' = <<>>
    /\ kpi' = NoKpi
    /\ UNCHANGED <<marketing_csv, service_csv, sales_csv, page, selection, cache, missing>>

NextMarketingRerun ==
    \/ WriteMarketingRow(FilterMarketingRows)
    \/ MarketingPage
    \/ MarketingRerun

SpecMarketingRerun == InitMarketing /\ [][NextMarketingRerun]_vars

\* C16: memoization is only an optimization: across reruns and changes of the
\* CSV file the table the cached loader returns is the table an unmemoized
\* call computes from the rows the file holds now
C16_CachedLoaderReturnsCurrentData ==
    MarketingLoaded => df = MarketingTable(marketing_csv)

-----------------------------------------------------------------------------
(* Average deal size on the Sales Performance page *)

\* C17: the avg_deal_size of a sales row is sum(growth_mrr) / sum(growth_accounts)
\* of the service rows of its month, and 0 when that month's growth_accounts
\* sum to 0; the company-wide Avg. Deal Size and the sales velocity computed
\* from it are finite
C17_AvgDealSizeZeroPolicy ==
    /\ SalesLoaded =>
          \A i \in DOMAIN df :
              LET rows == RowsOfMonth(service_csv, df[i].month_year)
              IN  rows # <<>> =>
                      df[i].avg_deal_size =
                          IF SumField(rows, "growth_accounts") = 0 THEN Zero
                          ELSE Frac(SumField(rows, "growth_mrr"), SumField(rows, "growth_accounts"))
    /\ SalesDone =>
          /\ IsFinite(kpi.company_avg_deal_size)
          /\ IsFinite(kpi.sales_velocity)

-----------------------------------------------------------------------------
(* Percentage-style outputs *)

\* sales rows with a positive quota and sales that may be negative (a month
\* of refunds)
SalesSignedRows ==
    {[date |-> Date(1, 1), manager |-> ManagerOf(rep), sales_rep |-> rep,
      sales |-> s, quota |-> q] :
        rep \in Reps, s \in {-1, 1}, q \in {1, 2}}

NextSalesSigned ==
    \/ WriteSalesRow(SalesSignedRows)
    \/ WriteSalesServiceRow(FilterSalesServiceRows)
    \/ SalesPage

SpecSalesSigned == InitSales /\ [][NextSalesSigned]_vars

\* a fraction in [0, infinity)
NonNegativeFraction(x) == IsFinite(x) /\ x.n >= 0

\* the fraction p / q itself, not 100 times it
PlainFraction(x, p, q) == q # 0 => x = Frac(p, q)

\* C18: every percentage-style output (funnel rates, quota attainment per
\* row, per manager and overall, grr, revenue and customer churn rate) is a
\* fraction in [0, infinity), also for negative sales or churn_mrr above the
\* book of business, and is never multiplied by 100
C18_PercentagesAreNonNegativeFractions ==
    /\ MarketingLoaded =>
          \A i \in DOMAIN df :
              /\ NonNegativeFraction(df[i].mql_to_sal_rate)
              /\ NonNegativeFraction(df[i].sal_to_sql_rate)
              /\ NonNegativeFraction(df[i].sql_to_closed_rate)
              /\ PlainFraction(df[i].mql_to_sal_rate, df[i].sal, df[i].mql)
    /\ ServiceLoaded =>
          \A i \in DOMAIN df :
              /\ NonNegativeFraction(df[i].grr)
              /\ NonNegativeFraction(df[i].revenue_churn_rate)
              /\ NonNegativeFraction(df[i].customer_churn_rate)
              /\ PlainFraction(df[i].revenue_churn_rate, df[i].churn_mrr,
                               df[i].book_of_business_bom)
    /\ SalesLoaded =>
          \A i \in DOMAIN df :
              /\ NonNegativeFraction(df[i].quota_attainment)
              /\ PlainFraction(df[i].quota_attainment, df[i].sales, df[i].quota)
    /\ SalesDone =>
          /\ NonNegativeFraction(kpi.overall_attainment)
          /\ \A mgr \in DOMAIN kpi.manager_perf_agg :
                NonNegativeFraction(kpi.manager_perf_agg[mgr].quota_attainment)

\* where the denominator is not 0 every such output is the plain fraction (not
\* 100 times it), and it is negative only for a negative numerator
PercentagesArePlainFractions ==
    /\ SalesLoaded =>
          \A i \in DOMAIN df :
              /\ PlainFraction(df[i].quota_attainment, df[i].sales, df[i].quota)
              /\ (df[i].quota > 0 /\ df[i].sales >= 0) => NonNegativeFraction(df[i].quota_attainment)
    /\ SalesDone =>
          /\ (kpi.total_sales >= 0) => NonNegativeFraction(kpi.overall_attainment)
          /\ \A mgr \in DOMAIN kpi.manager_perf_agg :
                (kpi.manager_perf_agg[mgr].total_sales >= 0 /\ kpi.manager_perf_agg[mgr].total_quota > 0)
                    => NonNegativeFraction(kpi.manager_perf_agg[mgr].quota_attainment)

-----------------------------------------------------------------------------
(* Overall marketing KPIs, pages/2_Marketing_Performance.py lines 69-79 *)

\* marketing rows whose stage counts break mql >= sal >= sql >= closed and
\* whose counts and revenue may be negative (corrections, refunds)
MarketingSignedRows ==
    {[date |-> Date(1, 1), campaign_name |-> c, cost |-> 1, mql |-> q,
      sal |-> sa, sql |-> 1, closed |-> 1, mrr |-> mr] :
        c \in {"c1", "c2"}, q \in {-1, 1}, sa \in {1, 2}, mr \in {-1, 1}}

NextMarketingSigned ==
    \/ WriteMarketingRow(MarketingSignedRows)
    \/ MarketingPage

SpecMarketingSigned == InitMarketing /\ [][NextMarketingSigned]_vars

MarketingAggregated == page = "marketing" /\ pc = "done"

\* the ratio of two column sums over the selected rows, 0 over a zero sum
RatioOfSums(f, numerator, denominator) ==
    IF SumField(f, denominator) = 0 THEN Zero
    ELSE Frac(SumField(f, numerator), SumField(f, denominator))

\* C19: the overall marketing KPIs of a campaign selection are the ratios of
\* the summed stages over the selected rows (sum(sal)/sum(mql),
\* sum(sql)/sum(sal), sum(closed)/sum(sql), sum(mrr)/sum(cost)); they are 0
\* when the denominator sum is 0, and for data violating
\* mql >= sal >= sql >= closed they are the actual ratio (above 1 or below 0),
\* never another value.
C19_OverallKpisAreRatiosOfSums ==
    MarketingAggregated =>
        /\ kpi.mql_sal_rate = RatioOfSums(filtered_df, "sal", "mql")
        /\ kpi.sal_sql_rate = RatioOfSums(filtered_df, "sql", "sal")
        /\ kpi.sql_closed_rate = RatioOfSums(filtered_df, "closed", "sql")
        /\ kpi.overall_mrr_per_dollar = RatioOfSums(filtered_df, "mrr", "cost")

\* the part of C19 the page does compute: over a positive denominator sum the
\* KPI is the ratio of sums, also when it is above 1 or below 0
OverallKpisAreRatiosOverPositiveSums ==
    MarketingAggregated =>
        /\ SumField(filtered_df, "mql") > 0
              => kpi.mql_sal_rate = RatioOfSums(filtered_df, "sal", "mql")
        /\ SumField(filtered_df, "cost") > 0
              => kpi.overall_mrr_per_dollar = RatioOfSums(filtered_df, "mrr", "cost")

-----------------------------------------------------------------------------
(* Cumulative S&M spend, pages/1_GTM_Health.py lines 45-65 and 76-80 *)

\* the marketing cost of all rows dated in months up to and including month m
RECURSIVE MarketingCostUpTo(_, _)
MarketingCostUpTo(marketing, m) ==
    IF marketing = <<>> THEN 0
    ELSE (IF marketing[1].date.m <= m THEN marketing[1].cost ELSE 0)
             + MarketingCostUpTo(Tail(marketing), m)

\* C20: cumulative_sm_spend at month m is the sales-cost multiplier times the
\* sum of marketing cost over all marketing rows dated in months from the
\* dataset's start up to and including m; no marketing cost from months
\* earlier than the first service month is left out of the running sum.
C20_CumulativeSpendCoversAllMarketingCost ==
    GtmLoaded =>
        \A i \in DOMAIN df :
            df[i].cumulative_sm_spend =
                Num(SALES_COST_MULTIPLIER * MarketingCostUpTo(marketing_csv, df[i].month_year.m))

\* the running sum the page does compute: it starts at the first service month
CumulativeSpendSinceFirstServiceMonth ==
    GtmLoaded =>
        \A i \in DOMAIN df :
            df[i].cumulative_sm_spend =
                Num(SALES_COST_MULTIPLIER
                        * (MarketingCostUpTo(marketing_csv, df[i].month_year.m)
                             - MarketingCostUpTo(marketing_csv, df[1].month_year.m - 1)))

-----------------------------------------------------------------------------
(* Baseline snapshot, pages/Growth Levers & Projections.py lines 26-70 *)

\* baselines holds the dictionary load_baselines returned
SimLoaded == page = "sim" /\ pc \in {"loaded", "levers", "done"}

\* C21: load_baselines is total: each baseline scalar is the ratio of
\* dataset-wide totals, 0 when its denominator is 0 (total_mql, total_sal,
\* total_sql, total growth_accounts, total book_of_business_bom), never NaN or
\* infinity, and current_mrr is book_of_business_eom of a latest-dated
\* service row.
C21_BaselinesTotal ==
    SimLoaded =>
        /\ ZeroPolicy(df.mql_sal_rate, SumField(marketing_csv, "mql"))
        /\ ZeroPolicy(df.sal_sql_rate, SumField(marketing_csv, "sal"))
        /\ ZeroPolicy(df.win_rate, SumField(marketing_csv, "sql"))
        /\ IsFinite(df.avg_mqls)
        /\ ZeroPolicy(df.avg_deal_size, SumField(service_csv, "growth_accounts"))
        /\ ZeroPolicy(df.churn_rate, SumField(service_csv, "book_of_business_bom"))
        /\ \E r \in LatestRows(service_csv) : df.current_mrr = Num(r.book_of_business_eom)

\* the guarded part of the snapshot: avg_mqls, avg_deal_size, churn_rate and
\* current_mrr are as C21 says
GuardedBaselinesTotal ==
    SimLoaded =>
        /\ IsFinite(df.avg_mqls)
        /\ ZeroPolicy(df.avg_deal_size, SumField(service_csv, "growth_accounts"))
        /\ ZeroPolicy(df.churn_rate, SumField(service_csv, "book_of_business_bom"))
        /\ \E r \in LatestRows(service_csv) : df.current_mrr = Num(r.book_of_business_eom)

-----------------------------------------------------------------------------
(* Lever domains, pages/Growth Levers & Projections.py lines 162-184 *)

\* service rows of a business that loses 1% or 10% of its book in the month
SimChurnServiceRows ==
    {[date |-> Date(1, 1), book_of_business_bom |-> 100, book_of_business_eom |-> 100,
      customer_accounts_bom |-> 1, churn_mrr |-> c, churn_accounts |-> 0,
      growth_mrr |-> 12, growth_accounts |-> 1] : c \in {1, 10}}

NextSimChurn ==
    \/ WriteSimMarketingRow(SimSteadyMarketingRows, MaxSimRows)
    \/ WriteSimServiceRow(SimChurnServiceRows, MaxSimRows)
    \/ SimPage

SpecSimChurn == InitSim /\ [][NextSimChurn]_vars

\* the levers are inside the documented input domain of the calculation
LeversInDomain(l) ==
    LET x == LeverFractions(l)
        UnitFraction(v) == FLe(Zero, v) /\ FLe(v, Num(1))
    IN  /\ FLe(Zero, x.mqls)
        /\ FLe(Zero, x.avg_deal_size)
        /\ FLe(Zero, x.target_quota)
        /\ UnitFraction(x.mql_to_sal)
        /\ UnitFraction(x.sal_to_sql)
        /\ UnitFraction(x.win_rate)
        /\ UnitFraction(x.churn_rate)
        /\ UnitFraction(x.expansion_rate)

\* C22: in every state of the simulator page the values fed to the
\* calculation are inside the documented domain (amounts >= 0, rates
\* fractions in [0,1]), and the default seeded from the baseline snapshot of
\* any dataset lies within the allowed range of its lever.
C22_LeversAndDefaultsInRange ==
    /\ (page = "sim" /\ pc \in {"levers", "done"}) => LeversInDomain(selection)
    /\ SimLoaded => \A w \in Widgets : WidgetAccepts(w, DefaultLevers(df)[w])

\* whenever the calculation runs, its inputs are inside the domain
CalculationInputsInDomain ==
    (page = "sim" /\ pc \in {"levers", "done"}) => LeversInDomain(selection)

-----------------------------------------------------------------------------
(* Negative sales, pages/3_Sales_Performance.py lines 82-85, 102, 117-121 *)

\* sales rows with reversals (negative sales); rep 1 has rows in two months
SalesClawbackRows ==
    {r \in {[date |-> Date(m, 1), manager |-> ManagerOf(rep), sales_rep |-> rep,
             sales |-> sa, quota |-> 1] : rep \in Reps, m \in {1, 2}, sa \in {-1, 1}} :
        r.date.m = 1 \/ r.sales_rep = 1}

NextSalesClawback ==
    \/ WriteSalesRow(SalesClawbackRows)
    \/ WriteSalesServiceRow(FilterSalesServiceRows)
    \/ SalesPage

SpecSalesClawback == InitSales /\ [][NextSalesClawback]_vars

\* the plain sum of the sales field, negatives included
RECURSIVE PlainSalesSum(_)
PlainSalesSum(rows) ==
    IF rows = <<>> THEN 0 ELSE Head(rows).sales + PlainSalesSum(Tail(rows))

\* the rows of the sales extract the sidebar selection keeps
SelectedSalesRows ==
    LET Picked(r) == /\ r.manager \in selection.selected_manager
                     /\ r.sales_rep \in selection.selected_rep
    IN  SelectSeq(sales_csv, Picked)

\* C23: negative sales are never dropped or clamped: Total Sales, each
\* month's total_sales and each manager's total_sales equal the plain sum of
\* the sales field over the filtered rows of their group, negatives included.
C23_NegativeSalesAreSummed ==
    SalesDone =>
        /\ kpi.total_sales = PlainSalesSum(SelectedSalesRows)
        /\ DOMAIN kpi.monthly_perf = {Date(r.date.m, 1) : r \in Range(SelectedSalesRows)}
        /\ \A my \in DOMAIN kpi.monthly_perf :
              LET InMonth(r) == r.date.m = my.m
              IN  kpi.monthly_perf[my].total_sales =
                      PlainSalesSum(SelectSeq(SelectedSalesRows, InMonth))
        /\ DOMAIN kpi.manager_perf_agg = {r.manager : r \in Range(SelectedSalesRows)}
        /\ \A mgr \in DOMAIN kpi.manager_perf_agg :
              LET OfManager(r) == r.manager = mgr
              IN  kpi.manager_perf_agg[mgr].total_sales =
                      PlainSalesSum(SelectSeq(SelectedSalesRows, OfManager))

\* a scoreboard over a reversal and a sale of the same manager and month
C23_Witness ==
    /\ SalesDone
    /\ \E r \in Range(filtered_df) :
          \E q \in Range(filtered_df) :
              /\ r.sales < 0
              /\ q.sales > 0
              /\ r.manager = q.manager
              /\ r.month_year = q.month_year
    /\ \E r \in Range(filtered_df) : r.month_year.m = 2
    /\ kpi.total_sales < 0

-----------------------------------------------------------------------------
(* Avg. Deal Size KPI, pages/3_Sales_Performance.py lines 35-41 and 89 *)

\* service rows of months that each won one account
SalesDealServiceRows == {r \in SalesServiceRows : r.growth_accounts = 1}

NextSalesDeal ==
    \/ WriteSalesRow(FilterSalesRows)
    \/ WriteSalesServiceRow(SalesDealServiceRows)
    \/ SalesPage

SpecSalesDeal == InitSales /\ [][NextSalesDeal]_vars

\* the average over the months of the service extract of the month's
\* avg_deal_size
AverageOverServiceMonths(service) ==
    LET months == {MonthStart(r.date) : r \in Range(service)}
        ads    == [my \in months |-> MonthlyAvgDealSize(service, my)]
    IN  Mean(CellsOf(ads, months))

\* C24: the Avg. Deal Size KPI is a company-wide monthly average derived from
\* the service data only: it equals the average over service months of that
\* month's avg_deal_size, whatever the manager/rep selection and however many
\* sales rows each month has.
C24_AvgDealSizeIsMonthlyAverage ==
    SalesDone => kpi.company_avg_deal_size = AverageOverServiceMonths(service_csv)

-----------------------------------------------------------------------------
(* Performance tiers, pages/3_Sales_Performance.py lines 138-144 *)

\* sales rows of months that met a quota of 1 or sold nothing
SalesTierRows == {r \in SalesRows : r.quota = 1 /\ r.sales <= 1}

NextSalesTiers ==
    \/ WriteSalesRow(SalesTierRows)
    \/ WriteSalesServiceRow(FilterSalesServiceRows)
    \/ SalesPage

SpecSalesTiers == InitSales /\ [][NextSalesTiers]_vars

\* the sum of sales / quota over rows with a positive quota
RECURSIVE AttainmentSum(_)
AttainmentSum(rows) ==
    IF rows = <<>> THEN Zero
    ELSE FAdd(Frac(Head(rows).sales, Head(rows).quota), AttainmentSum(Tail(rows)))

\* one value per selected rep: the mean of the rep's monthly attainments
PerRepMeans ==
    [rep \in {r.sales_rep : r \in Range(SelectedSalesRows)} |->
        LET OfRep(r) == r.sales_rep = rep
            rows     == SelectSeq(SelectedSalesRows, OfRep)
        IN  FDiv(AttainmentSum(rows), Num(Len(rows)))]

\* C25: the tier thresholds are the 80th and 10th percentile of the set of
\* per-rep mean quota attainments (one value per rep), not of the raw
\* rep-month rows, so further rows of a rep that leave the rep's mean
\* unchanged leave both thresholds and all tiers unchanged.
C25_ThresholdsOverPerRepMeans ==
    SalesDone =>
        LET means  == PerRepMeans
            cells  == CellsOf(means, DOMAIN means)
            top    == Quantile(cells, 8, 10)
            bottom == Quantile(cells, 1, 10)
        IN  /\ kpi.top_20_threshold = top
            /\ kpi.bottom_10_threshold = bottom
            /\ kpi.top_performers = {rep \in DOMAIN means : FGe(means[rep], top)}
            /\ kpi.bottom_performers = {rep \in DOMAIN means : FLe(means[rep], bottom)}
            /\ kpi.middle_performers =
                   {rep \in DOMAIN means : FGt(means[rep], bottom) /\ FLt(means[rep], top)}

\* tiers over a rep with several rows, where the percentile of the raw rows
\* differs from the one of the per-rep means
C25_Witness ==
    /\ SalesDone
    /\ \E i \in DOMAIN filtered_df :
          \E j \in DOMAIN filtered_df :
              i # j /\ filtered_df[i].sales_rep = filtered_df[j].sales_rep
    /\ Cardinality(DOMAIN kpi.rep_attainment) > 1
    /\ kpi.top_20_threshold # Quantile(Column(filtered_df, "quota_attainment"), 8, 10)

-----------------------------------------------------------------------------
(* Order of the input rows, pages/1_GTM_Health.py lines 39-67 *)

\* extracts with one kind of row per month: month m costs m and wins m accounts
GtmOrderMarketingRows ==
    {[date |-> Date(m, 1), campaign_name |-> "c1", cost |-> m, mql |-> 1,
      sal |-> 0, sql |-> 0, closed |-> 0, mrr |-> 0] : m \in Months}

GtmOrderServiceRows ==
    {[date |-> Date(m, 1), book_of_business_bom |-> 1, book_of_business_eom |-> 0,
      customer_accounts_bom |-> 1, churn_mrr |-> 0, churn_accounts |-> 0,
      growth_mrr |-> 0, growth_accounts |-> m] : m \in Months}

NextGtmOrder ==
    \/ WriteGtmMarketingRow(GtmOrderMarketingRows)
    \/ WriteGtmServiceRow(GtmOrderServiceRows)
    \/ GtmPage

SpecGtmOrder == InitGtm /\ [][NextGtmOrder]_vars

\* the orders of n rows: the permutations of 1 .. n
RowOrders(n) ==
    {p \in [1 .. n -> 1 .. n] : \A i \in 1 .. n : \A j \in 1 .. n : i # j => p[i] # p[j]}

\* the rows of an extract in the order p
Permuted(rows, p) == [i \in 1 .. Len(rows) |-> rows[p[i]]]

\* C26: monthly aggregation is order-independent: for any permutation of the
\* marketing and service input rows, load_and_calculate_metrics returns the
\* same table (same months in ascending order, same sums, same forward-filled
\* and cumulative values).
C26_OrderIndependent ==
    (page = "gtm" /\ pc = "loaded") =>
        \A p \in RowOrders(Len(marketing_csv)) :
            \A q \in RowOrders(Len(service_csv)) :
                LET table == GtmTable(Permuted(marketing_csv, p), Permuted(service_csv, q))
                IN  SubSeq(table, 1, Len(table)) = df

\* a table of several months loaded from extracts whose rows are not in date
\* order
C26_Witness ==
    /\ page = "gtm"
    /\ pc = "loaded"
    /\ Len(df) > 1
    /\ \E i \in DOMAIN service_csv :
          \E j \in DOMAIN service_csv : i < j /\ service_csv[i].date.m > service_csv[j].date.m
    /\ \E r \in Range(df) : FGt(r.cumulative_sm_spend, Zero)

-----------------------------------------------------------------------------
(* The month axis, pages/1_GTM_Health.py lines 39-63 *)

\* extracts whose records fall on the 1st of a month or, in month 1, also on
\* the 15th
GtmDayMarketingRows ==
    {r \in {[date |-> Date(m, d), campaign_name |-> "c1", cost |-> 1, mql |-> 1,
             sal |-> 0, sql |-> 0, closed |-> 0, mrr |-> 0] : m \in Months, d \in Days} :
        r.date.d = 1 \/ r.date.m = 1}

GtmDayServiceRows ==
    {r \in {[date |-> Date(m, d), book_of_business_bom |-> 1, book_of_business_eom |-> 0,
             customer_accounts_bom |-> 1, churn_mrr |-> 0, churn_accounts |-> 0,
             growth_mrr |-> 0, growth_accounts |-> 1] : m \in Months, d \in Days} :
        r.date.d = 1 \/ r.date.m = 1}

NextGtmDays ==
    \/ WriteGtmMarketingRow(GtmDayMarketingRows)
    \/ WriteGtmServiceRow(GtmDayServiceRows)
    \/ GtmPage

SpecGtmDays == InitGtm /\ [][NextGtmDays]_vars

\* the number of rows of an extract dated in calendar month m, whatever the day
RECURSIVE RecordsInMonth(_, _)
RecordsInMonth(rows, m) ==
    IF rows = <<>> THEN 0
    ELSE (IF Head(rows).date.m = m THEN 1 ELSE 0) + RecordsInMonth(Tail(rows), m)

\* C27: the GTM monthly series has exactly one row for every calendar month
\* between the earliest and the latest service month inclusive, in strictly
\* ascending month order with no duplicate and no missing month, and records
\* whose dates fall in the same calendar month (any day of the month) are
\* summed into the same row.
C27_OneRowPerCalendarMonth ==
    GtmLoaded =>
        LET months == {r.date.m : r \in Range(service_csv)}
        IN  /\ \A m \in months : \E i \in DOMAIN df : df[i].month_year = Date(m, 1)
            /\ \A i \in DOMAIN df :
                  /\ df[i].month_year.d = 1
                  /\ \E lo \in months : lo <= df[i].month_year.m
                  /\ \E hi \in months : df[i].month_year.m <= hi
                  /\ i > 1 => df[i].month_year.m = df[i - 1].month_year.m + 1
                  \* every record of the extracts costs 1 and wins 1 account
                  /\ df[i].total_marketing_cost =
                         Num(RecordsInMonth(marketing_csv, df[i].month_year.m))
                  /\ df[i].month_year.m \in months
                         => df[i].total_new_customers =
                                Num(RecordsInMonth(service_csv, df[i].month_year.m))

\* a series of several months with a month in between that has no service
\* record, and two records of different days summed into the row of month 1
C27_Witness ==
    /\ GtmLoaded
    /\ Len(df) > 2
    /\ \E i \in DOMAIN df : df[i].month_year.m \notin {r.date.m : r \in Range(service_csv)}
    /\ \E r \in Range(service_csv) :
          \E q \in Range(service_csv) : r.date.m = q.date.m /\ r.date.d # q.date.d
    /\ \E i \in DOMAIN df : df[i].total_new_customers = Num(2)

-----------------------------------------------------------------------------
(* Date range and accumulation, pages/1_GTM_Health.py lines 76-80, 103-120 *)

\* a full date range has been picked
GtmRangeSelected == page = "gtm" /\ pc \in {"filtered", "done"}

\* C28: selecting a date range does not restart accumulation: for every month
\* in the selected range cumulative_sm_spend, cumulative_new_customers and
\* cumulative_cac are the values of the unfiltered series, accumulated from
\* its first month, and the Overall Blended CAC KPI is the cumulative_cac of
\* the latest month in the selected range.
C28_RangeKeepsAccumulation ==
    GtmRangeSelected =>
        LET InRange(i) == /\ DateLe(selection.start_date, df[i].month_year)
                          /\ DateLe(df[i].month_year, selection.end_date)
            selected   == {i \in DOMAIN df : InRange(i)}
            spend      == SubSeq(Column(df, "total_sm_spend"), 1, Len(df))
            customers  == SubSeq(Column(df, "total_new_customers"), 1, Len(df))
        IN  /\ Len(filtered_df) = Cardinality(selected)
            /\ \A j \in DOMAIN filtered_df :
                  \E i \in selected :
                      /\ filtered_df[j].month_year = df[i].month_year
                      /\ filtered_df[j].cumulative_sm_spend = SumSkipNa(SubSeq(spend, 1, i))
                      /\ filtered_df[j].cumulative_new_customers =
                             SumSkipNa(SubSeq(customers, 1, i))
                      /\ filtered_df[j].cumulative_cac = df[i].cumulative_cac
            /\ pc = "done" =>
                  \E i \in selected :
                      /\ \A k \in selected : k <= i
                      /\ kpi.overall_cac = df[i].cumulative_cac

\* a scorecard over a range that starts after the first month of the series,
\* with spend and customers accumulated before the range
C28_Witness ==
    /\ page = "gtm"
    /\ pc = "done"
    /\ selection.start_date.m > df[1].month_year.m
    /\ FGt(df[1].cumulative_sm_spend, Zero)
    /\ FGt(df[1].cumulative_new_customers, Zero)
    /\ FGt(filtered_df[1].cumulative_sm_spend, filtered_df[1].total_sm_spend)
    /\ FGt(kpi.overall_cac, Zero)

-----------------------------------------------------------------------------
(* Missing data files: the except FileNotFoundError clause of every loader
   and the `if ... is None: st.stop()` that follows the call *)

\* the three extracts under data/
Files == {"marketing", "service", "sales"}

\* one service row of the Customer Success page
FilterServiceRows ==
    {r \in ServiceRows :
        /\ r.date.m = 1
        /\ r.book_of_business_bom = 1
        /\ r.customer_accounts_bom = 1
        /\ r.churn_mrr = 0
        /\ r.churn_accounts = 0}

\* a data file is removed before the page runs
RemoveFile ==
    /\ pc = "start"
    /\ \E f \in Files \ missing : missing' = missing \cup {f}
    /\ UNCHANGED <<marketing_csv, service_csv, sales_csv, page, pc, df, selection, filtered_df,
                   kpi, cache>>

InitFiles == InitGtm \/ InitMarketing \/ InitService \/ InitSales \/ InitSim

NextFiles ==
    \/ RemoveFile
    \/ WriteGtmMarketingRow(FilterGtmMarketingRows)
    \/ WriteGtmServiceRow(FilterGtmServiceRows)
    \/ GtmPage
    \/ WriteMarketingRow(FilterMarketingRows)
    \/ MarketingPage
    \/ MarketingRerun
    \/ WriteServiceRow(FilterServiceRows)
    \/ ServicePage
    \/ WriteSalesRow(FilterSalesRows)
    \/ WriteSalesServiceRow(FilterSalesServiceRows)
    \/ SalesPage
    \/ WriteSimMarketingRow(SimSteadyMarketingRows, MaxSimRows)
    \/ WriteSimServiceRow(SimSteadyServiceRows, MaxSimRows)
    \/ SimPage

SpecFiles == InitFiles /\ [][NextFiles]_vars

\* the files the loader of a page reads
SourceFiles(p) ==
    IF p = "marketing" THEN {"marketing"}
    ELSE IF p = "service" THEN {"service"}
    ELSE IF p = "sales" THEN {"sales", "service"}
    ELSE {"marketing", "service"}

\* the loader is called while one of its source files is missing
LoadWithMissingFile ==
    /\ pc = "start"
    /\ pc' # "start"
    /\ SourceFiles(page) \cap missing # {}

\* the page stops without a table, a filter or a metric
PageStops ==
    /\ pc' = "stopped"
    /\ df' = <<>>
    /\ filtered_df' = <<>>
    /\ kpi' = NoKpi

\* C29: on every data page, if a source CSV file is missing the loader
\* reports an error and returns None, and the page then stops: no filter,
\* KPI or chart step is reached after the failed load and no metric is
\* rendered.
C29_MissingFileStopsPage ==
    [][/\ LoadWithMissingFile => PageStops
       /\ pc = "stopped" => pc' \in {"stopped", "start"}]_vars

\* the same for a loader that st.cache_data has no entry of
MissingFileStopsPageOnFirstLoad ==
    [][/\ (LoadWithMissingFile /\ cache = NoCache) => PageStops
       /\ pc = "stopped" => pc' \in {"stopped", "start"}]_vars

====
